---- MODULE Spec2Model ----
(***************************************************************************)
(* gofipe: a backend-for-frontend that proxies the FIPE v2 price API.      *)
(* The module models src/app/main.go: the TTL cache, the passthrough       *)
(* handlers with their Prometheus metrics, and the price-history           *)
(* synthesizer (handleGetPriceHistory).                                    *)
(*                                                                         *)
(* Representation.  Text is a TLA+ string.  A JSON number is kept as its   *)
(* decimal text, so an int field of a Go struct holds a numeral.  A byte   *)
(* slice that the handlers move around is a "document": the parsed form of *)
(* the bytes, tagged with who encoded it (the upstream, or Go's            *)
(* json.Marshal), so that decoding and re-encoding is not the identity.    *)
(***************************************************************************)
EXTENDS Integers, Sequences, FiniteSets, TLC

VARIABLES
    \* ---- price history synthesizer (one request in flight) ----
    today,      \* calendar date read by time.Now() while the request runs
    hpc,        \* position of handleGetPriceHistory
    months,     \* effective month count of the request
    nativeErr,  \* err of the native history fetch (main.go:371)
    cand,       \* per month task: number of candidates fetched so far
    tdone,      \* per month task: wg.Done() has run
    results,    \* results[offset]: the slot of each month task
    resp,       \* the HTTP response written by the history handler
    fetched,    \* history of the calls: per month task, the URLs fetched, in order
    nfetch,     \* history of the calls: fetchExternal calls of the request so far
    \* ---- cache, passthrough handlers, metrics ----
    now,        \* wall clock, in hours
    cache,      \* the cache map: key -> cacheItem
    stored,     \* history of the calls: the most recent setCached per key
    searchStats, brandCount, fuelCount, priceMin, priceMax,
    observed,   \* history of the calls: the prices parsed so far, per gauge labels
    last,       \* what the most recent handler or cache call did
    \* ---- parsePrice called on its own ----
    pin,        \* the argument s, as its characters
    pout,       \* what the call returned
    \* ---- passthrough handlers running concurrently ----
    tpc,        \* per goroutine: position in its handler
    tloc,       \* per goroutine: the request and the locals of its handler
    rw,         \* cacheMu: readers holding it, and whether a writer holds it
    writing     \* keys whose map assignment is under way

histVars  == <<today, hpc, months, nativeErr, cand, tdone, results, resp,
               fetched, nfetch>>
proxyVars == <<now, cache, stored, searchStats, brandCount, fuelCount,
               priceMin, priceMax, observed, last>>
parseVars == <<pin, pout>>
concVars  == <<tpc, tloc, rw, writing>>
vars      == <<histVars, proxyVars, parseVars, concVars>>

-----------------------------------------------------------------------------
(* Bounds of the model.                                                    *)

\* largest month count a history request asks for
MaxMonths == 2
\* the clock stops after MaxClock ticks of twelve hours
MaxClock == 3
\* each counter metric is capped
MaxCount == 2
\* longest run of digits and separators in the strings given to parsePrice
MaxRun == 4
\* number of goroutines serving passthrough requests at once
MaxThreads == 2

-----------------------------------------------------------------------------
(* Calendar: time.Time.AddDate and the two date formats.                   *)

IsLeap(y) == (y % 4 = 0) /\ ((y % 100 # 0) \/ (y % 400 = 0))

DaysIn(y, m) ==
    IF m = 2 THEN (IF IsLeap(y) THEN 29 ELSE 28)
    ELSE IF m \in {4, 6, 9, 11} THEN 30 ELSE 31

\* time.Date normalises a month outside 1..12 into the year
NormMonth(y, m) ==
    [y |-> y + ((m - 1) \div 12), m |-> ((m - 1) % 12) + 1]

\* ... and a day past the end of the month into the following months
RECURSIVE NormDay(_, _, _)
NormDay(y, m, d) ==
    IF d > DaysIn(y, m)
    THEN LET n == NormMonth(y, m + 1) IN NormDay(n.y, n.m, d - DaysIn(y, m))
    ELSE [y |-> y, m |-> m, d |-> d]

\* t.AddDate(0, k, 0)
AddDate(t, k) ==
    LET n == NormMonth(t.y, t.m + k) IN NormDay(n.y, n.m, t.d)

Digit == <<"0", "1", "2", "3", "4", "5", "6", "7", "8", "9">>

RECURSIVE Itoa(_)
Itoa(n) == IF n < 10 THEN Digit[n + 1]
           ELSE Itoa(n \div 10) \o Digit[(n % 10) + 1]

\* %02d
TwoDigit(n) == IF n < 10 THEN "0" \o Itoa(n) ELSE Itoa(n)

\* fmt.Sprintf("%02d/%d", int(ref.Month()), ref.Year())
MonthLabel(t) == TwoDigit(t.m) \o "/" \o Itoa(t.y)

\* ref.Format("2006-01")
RefString(t) == Itoa(t.y) \o "-" \o TwoDigit(t.m)

\* strings.Split(ref, "-") of a "2006-01" string: year, month
SplitRef(t) == <<Itoa(t.y), TwoDigit(t.m)>>

-----------------------------------------------------------------------------
(* JSON documents.                                                         *)

PRKeys == {"price", "brand", "model", "modelYear", "fuel", "codeFipe",
           "referenceMonth", "vehicleType", "acronymFuel"}
PRIntKeys == {"modelYear", "vehicleType"}
\* keys an upstream object may carry besides the nine of PriceResponse
OtherKeys == {"Valor", "extra"}
ObjKeys == PRKeys \cup OtherKeys

Absent == [t |-> "absent", v |-> ""]
Str(s) == [t |-> "str", v |-> s]
Num(s) == [t |-> "num", v |-> s]

NoFields == [k \in ObjKeys |-> Absent]

\* an upstream JSON object with the given fields
Obj(f) == [kind |-> "object", enc |-> "upstream",
           f |-> [k \in ObjKeys |-> IF k \in DOMAIN f THEN f[k] ELSE Absent]]
\* bytes that are not an object: malformed, empty, null, scalar (array,
\* string or number)
Raw(kind) == [kind |-> kind, enc |-> "upstream", f |-> NoFields]
\* a nil json.RawMessage / nil []byte
Nil == [kind |-> "nil", enc |-> "go", f |-> NoFields]
\* an object with a "history" array and one more top-level key
Envelope(enc, items, meta) ==
    [kind |-> "envelope", enc |-> enc, f |-> NoFields,
     history |-> items, meta |-> meta]

\* len(b) of a byte slice
IsEmptyBytes(doc) == doc.kind \in {"nil", "empty"}
\* json.Valid
IsValidJSON(doc) == doc.kind \in {"object", "envelope", "null", "scalar"}

ZeroPR == [k \in PRKeys |-> IF k \in PRIntKeys THEN "0" ELSE ""]

\* json.Unmarshal(b, &pr) with pr a zero PriceResponse
UnmarshalPR(doc) ==
    IF ~IsValidJSON(doc) \/ doc.kind = "scalar"
    THEN [err |-> TRUE, pr |-> ZeroPR]
    ELSE IF doc.kind # "object"
    THEN [err |-> FALSE, pr |-> ZeroPR]
    ELSE LET want(k) == IF k \in PRIntKeys THEN "num" ELSE "str"
             bad(k)  == doc.f[k].t \notin {"absent", "null", want(k)}
         IN  [err |-> \E k \in PRKeys : bad(k),
              pr  |-> [k \in PRKeys |->
                        IF doc.f[k].t = want(k) THEN doc.f[k].v
                        ELSE ZeroPR[k]]]

\* json.Marshal(pr)
MarshalPR(pr) ==
    [kind |-> "object", enc |-> "go",
     f |-> [k \in ObjKeys |->
              IF k \in PRIntKeys THEN Num(pr[k])
              ELSE IF k \in PRKeys THEN Str(pr[k])
              ELSE Absent]]

\* json.Unmarshal(b, &raw) with raw a map[string]interface{}
UnmarshalMapOK(doc) == doc.kind \in {"object", "envelope"}

\* json.Marshal of a decoded map
MarshalMap(doc) == [doc EXCEPT !.enc = "go"]

-----------------------------------------------------------------------------
(* Upstream: what fetchExternal can return.                                *)

FetchFailures == {"status 404"}

Fail(e, u) == [ok |-> FALSE, err |-> [what |-> e, url |-> u], body |-> Nil]
Ok(b)      == [ok |-> TRUE, err |-> [what |-> "", url |-> ""], body |-> b]
NoErr      == [what |-> "", url |-> ""]

\* what a fetch of url u can return, given the bodies the endpoint may answer
Outcomes(u, bodies) ==
    {Fail(e, u) : e \in FetchFailures} \cup {Ok(b) : b \in bodies}

\* no response written yet
NoResp == [status |-> 0, body |-> Nil]

RecA == Obj([price |-> Str("R$ 10.000,00"), brand |-> Str("Ford"),
             model |-> Str("Fiesta"), modelYear |-> Num("2014"),
             fuel |-> Str("Gasoline"), codeFipe |-> Str("A"),
             referenceMonth |-> Str("janeiro de 2020"),
             extra |-> Str("x")])
RecB == Obj([price |-> Str("R$ 9.500,00"), brand |-> Str("Ford"),
             model |-> Str("Fiesta"), fuel |-> Str("Diesel"),
             codeFipe |-> Str("B")])
RecNoPrice == Obj([brand |-> Str("Ford"), codeFipe |-> Str("C")])
\* does not decode as a PriceResponse: modelYear is a string
Legacy == Obj([Valor |-> Str("R$ 9.000,00"), modelYear |-> Str("2014"),
               extra |-> Str("y")])

\* does not decode as a PriceResponse either, and has both price and Valor
LegacyWithPrice == Obj([price |-> Str("R$ 8.000,00"), Valor |-> Str("R$ 9.000,00"),
                        modelYear |-> Str("2014"),
                        referenceMonth |-> Str("maio de 2020")])

\* decodes as a PriceResponse, but its price holds no number
RecNoQuote == Obj([price |-> Str("N/D"), brand |-> Str("Ford"),
                   model |-> Str("Fiesta"), fuel |-> Str("Flex"),
                   codeFipe |-> Str("D")])

\* bodies a per-month candidate or the single-price endpoint may answer
PriceBodies == {RecA, RecB, RecNoPrice, Legacy,
                Raw("scalar"), Raw("malformed"), Raw("empty"), Raw("null")}

ItemA == Obj([price |-> Str("R$ 10.000,00"), codeFipe |-> Str("A"),
              referenceMonth |-> Str("janeiro de 2020"),
              extra |-> Str("x")])
ItemB == Obj([price |-> Str("R$ 9.500,00"), codeFipe |-> Str("B")])

\* bodies the native history endpoint may answer
NativeBodies ==
    {Envelope("upstream", <<ItemA>>, Str("v2")),
     Envelope("upstream", <<ItemB, ItemA>>, Absent),
     Envelope("upstream", <<ItemA, Raw("scalar"), ItemB>>, Str("v2")),
     RecA, Raw("scalar"), Raw("malformed")}

-----------------------------------------------------------------------------
(* parsePrice.  A float64 is the pair n / 10^e with no trailing zero in    *)
(* the fraction; the prices of the model are far below 2^53.               *)

NumChars == {"0", "1", "2", "3", "4", "5", "6", "7", "8", "9", ",", "."}
DigitVal(c) == CHOOSE d \in 0..9 : Digit[d + 1] = c

\* the characters of the price strings the upstream bodies carry
Chars(s) ==
    CASE s = "R$ 10.000,00" ->
           <<"R", "$", " ", "1", "0", ".", "0", "0", "0", ",", "0", "0">>
      [] s = "R$ 9.500,00" ->
           <<"R", "$", " ", "9", ".", "5", "0", "0", ",", "0", "0">>
      [] s = "R$ 9.000,00" ->
           <<"R", "$", " ", "9", ".", "0", "0", "0", ",", "0", "0">>
      [] s = "N/D" -> <<"N", "/", "D">>
      [] OTHER -> <<>>

RECURSIVE TrimLeft(_)
TrimLeft(cs) == IF cs # <<>> /\ Head(cs) = " " THEN TrimLeft(Tail(cs)) ELSE cs
RECURSIVE TrimRight(_)
TrimRight(cs) == IF cs # <<>> /\ cs[Len(cs)] = " "
                 THEN TrimRight(SubSeq(cs, 1, Len(cs) - 1)) ELSE cs
\* strings.TrimSpace
TrimSpace(cs) == TrimRight(TrimLeft(cs))

\* the longest prefix of cs made of characters of [0-9,.]
RECURSIVE NumPrefix(_)
NumPrefix(cs) == IF cs # <<>> /\ Head(cs) \in NumChars
                 THEN <<Head(cs)>> \o NumPrefix(Tail(cs)) ELSE <<>>
\* variant: the regexp matches digits only, `[0-9]+`
RECURSIVE FindNumericDigitsOnly(_)
FindNumericDigitsOnly(cs) ==
    IF cs = <<>> THEN <<>>
    ELSE IF Head(cs) \in NumChars \ {",", "."}
    THEN <<Head(cs)>> \o (IF Tail(cs) # <<>> /\ Head(Tail(cs)) \in NumChars \ {",", "."}
                          THEN FindNumericDigitsOnly(Tail(cs)) ELSE <<>>)
    ELSE FindNumericDigitsOnly(Tail(cs))

\* regexp `[0-9,.]+`, FindString: the leftmost match, taken greedily
RECURSIVE FindNumeric(_)
FindNumeric(cs) == IF cs = <<>> THEN <<>>
                   ELSE IF Head(cs) \in NumChars THEN NumPrefix(cs)
                   ELSE FindNumeric(Tail(cs))

Contains(cs, c) == \E i \in 1..Len(cs) : cs[i] = c
\* strings.ReplaceAll(m, ".", "")
RECURSIVE Remove(_, _)
Remove(cs, c) == IF cs = <<>> THEN <<>>
                 ELSE (IF Head(cs) = c THEN <<>> ELSE <<Head(cs)>>)
                      \o Remove(Tail(cs), c)
\* strings.ReplaceAll(m, ",", ".")
Replace(cs, c, d) == [i \in 1..Len(cs) |-> IF cs[i] = c THEN d ELSE cs[i]]

RECURSIVE DigitsVal(_)
DigitsVal(cs) == IF cs = <<>> THEN 0
                 ELSE 10 * DigitsVal(SubSeq(cs, 1, Len(cs) - 1))
                      + DigitVal(cs[Len(cs)])
RECURSIVE Normal(_, _)
Normal(n, e) == IF e > 0 /\ n % 10 = 0 THEN Normal(n \div 10, e - 1)
                ELSE [n |-> n, e |-> e]
NaN == [n |-> -1, e |-> -1]

\* strconv.ParseFloat on a string of digits and separators
ParseFloat(cs) ==
    LET dots == {i \in 1..Len(cs) : cs[i] = "."}
        ds   == Remove(cs, ".")
    IN  IF Cardinality(dots) > 1 \/ ds = <<>> \/ Contains(ds, ",")
        THEN [ok |-> FALSE, val |-> NaN, err |-> "invalid syntax"]
        ELSE [ok |-> TRUE, err |-> "",
              val |-> Normal(DigitsVal(ds),
                             IF dots = {} THEN 0
                             ELSE Len(cs) - (CHOOSE i \in dots : TRUE))]

\* variant: a comma is a decimal point only next to thousands dots
ParsePriceCharsCommaAsIs(cs0) ==
    LET m == FindNumeric(TrimSpace(cs0))
    IN  IF m = <<>> THEN [ok |-> FALSE, val |-> NaN, err |-> "no numeric part"]
        ELSE IF Contains(m, ".") /\ Contains(m, ",")
        THEN ParseFloat(Replace(Remove(m, "."), ",", "."))
        ELSE ParseFloat(m)

ParsePriceChars(cs0) ==
    LET m == FindNumeric(TrimSpace(cs0))
    IN  IF m = <<>> THEN [ok |-> FALSE, val |-> NaN, err |-> "no numeric part"]
        ELSE IF Contains(m, ".") /\ Contains(m, ",")
        THEN ParseFloat(Replace(Remove(m, "."), ",", "."))
        ELSE IF Contains(m, ",") /\ ~Contains(m, ".")
        THEN ParseFloat(Replace(m, ",", "."))
        ELSE ParseFloat(m)

parsePrice(s) == ParsePriceChars(Chars(s))

\* strings given to parsePrice called on its own: text, then a run of digits
\* and separators, then text
RunChars == {"1", "5", ".", ","}
Runs == UNION {[1..k -> RunChars] : k \in 0..MaxRun}
Prefixes == {<<>>, <<" ", "R", "$", " ">>, <<"n", ".", " ">>}
Suffixes == {<<>>, <<" ", "x">>, <<" ", "7">>}
Examples == {<<"1", ".", "2", "3", "4", ",", "5", "6">>,
             <<"1", "2", "3", "4", ".", "5", "6">>,
             <<"1", "2", "3", "4", ",", "5", "6">>}
PriceTexts == {a \o r \o z : a \in Prefixes, r \in Runs, z \in Suffixes}
              \cup Examples

NotCalled == [ok |-> FALSE, val |-> NaN, err |-> "not called"]

\* no call of parsePrice on its own is in progress
ParseIdle == pin = <<>> /\ pout = NotCalled

CallParsePrice ==
    /\ pout = NotCalled
    /\ pout' = ParsePriceChars(pin)
    /\ UNCHANGED pin
    /\ UNCHANGED <<histVars, proxyVars, concVars>>

ParseNext == CallParsePrice

-----------------------------------------------------------------------------
(* The TTL cache.                                                          *)

\* variant: an entry is stale from the instant of its expiry on
getCachedStaleAtExpiry(c, key, t) ==
    IF key \notin DOMAIN c \/ t >= c[key].expiresAt
    THEN [data |-> Nil, ok |-> FALSE]
    ELSE [data |-> c[key].data, ok |-> TRUE]

getCached(c, key, t) ==
    IF key \notin DOMAIN c \/ t > c[key].expiresAt
    THEN [data |-> Nil, ok |-> FALSE]
    ELSE [data |-> c[key].data, ok |-> TRUE]

setCached(c, key, data, ttl, t) ==
    [k \in DOMAIN c \cup {key} |->
        IF k = key THEN [data |-> data, expiresAt |-> t + ttl] ELSE c[k]]

\* the record of the calls: what the latest setCached of a key was given
NoteSet(st, key, data, ttl, t) ==
    [k \in DOMAIN st \cup {key} |->
        IF k = key THEN [data |-> data, ttl |-> ttl, at |-> t] ELSE st[k]]

-----------------------------------------------------------------------------
(* Metrics: a CounterVec or GaugeVec is a map from label values.           *)

Count(c, l) == IF l \in DOMAIN c THEN c[l] ELSE 0
Inc(c, l) == [x \in DOMAIN c \cup {l} |-> IF x = l THEN Count(c, l) + 1 ELSE c[x]]
GaugeSet(g, l, v) == [x \in DOMAIN g \cup {l} |-> IF x = l THEN v ELSE g[x]]

-----------------------------------------------------------------------------
(* The passthrough handlers.                                               *)

\* hours
TTLBrands == 12
TTLModels == 12
TTLYears  == 24

BaseURL == "https://fipe.parallelum.com.br/api/v2"

BrandsType(q) == IF q.type = "" THEN "cars" ELSE q.type
BrandsKey(q) == "brands:" \o BrandsType(q)
BrandsURL(q) == BaseURL \o "/" \o BrandsType(q) \o "/brands"
ModelsKey(q) == "models:" \o q.type \o ":" \o q.brandId
ModelsURL(q) == BaseURL \o "/" \o q.type \o "/brands/" \o q.brandId \o "/models"
YearsKey(q)  == "years:" \o q.type \o ":" \o q.brandId \o ":" \o q.modelId
YearsURL(q)  == BaseURL \o "/" \o q.type \o "/brands/" \o q.brandId
                \o "/models/" \o q.modelId \o "/years"
PriceURL(q)  == BaseURL \o "/" \o q.type \o "/brands/" \o q.brandId
                \o "/models/" \o q.modelId \o "/years/" \o q.yearId

\* http.Error(w, err.Error(), code)
ErrorResponse(code, err) == [status |-> code, body |-> [kind |-> "error", msg |-> <<err>>]]
\* w.Write(data) with no WriteHeader
OkResponse(data) == [status |-> 200, body |-> data]

\* variant: a present entry is served whatever its expiry
CachedFetchIgnoresExpiry(c, key, out, ttl, t) ==
    IF key \in DOMAIN c
    THEN [resp |-> OkResponse(c[key].data), cache |-> c, fetches |-> 0, set |-> FALSE]
    ELSE IF ~out.ok
    THEN [resp |-> ErrorResponse(502, out.err), cache |-> c,
          fetches |-> 1, set |-> FALSE]
    ELSE [resp |-> OkResponse(out.body),
          cache |-> setCached(c, key, out.body, ttl, t),
          fetches |-> 1, set |-> TRUE]

\* variant: the store is made before the error check
CachedFetchStoresOnError(c, key, out, ttl, t) ==
    LET g == getCached(c, key, t)
    IN  IF g.ok
        THEN [resp |-> OkResponse(g.data), cache |-> c, fetches |-> 0, set |-> FALSE]
        ELSE IF ~out.ok
        THEN [resp |-> ErrorResponse(502, out.err),
              cache |-> setCached(c, key, out.body, ttl, t),
              fetches |-> 1, set |-> TRUE]
        ELSE [resp |-> OkResponse(out.body),
              cache |-> setCached(c, key, out.body, ttl, t),
              fetches |-> 1, set |-> TRUE]

\* the body shared by handleGetBrands, handleGetModels and handleGetYears:
\* the response, the cache after, and whether a fetch and a store were made
CachedFetch(c, key, out, ttl, t) ==
    LET g == getCached(c, key, t)
    IN  IF g.ok
        THEN [resp |-> OkResponse(g.data), cache |-> c, fetches |-> 0, set |-> FALSE]
        ELSE IF ~out.ok
        THEN [resp |-> ErrorResponse(502, out.err), cache |-> c,
              fetches |-> 1, set |-> FALSE]
        ELSE [resp |-> OkResponse(out.body),
              cache |-> setCached(c, key, out.body, ttl, t),
              fetches |-> 1, set |-> TRUE]

\* variant: the gauges are labelled with the names of the request
PriceGaugeLabelsOfRequest(pr, q) == <<q.brandName, q.modelName, q.yearId>>

\* labels of the price gauges (lines 322-323)
PriceGaugeLabels(pr, q) == <<pr["brand"], pr["model"], q.yearId>>

\* variant: the fuel is counted only when the price has been parsed
PayloadMetricsFuelNeedsPrice(data, q, pmin, pmax, fuel) ==
    LET u == UnmarshalPR(data)
        p == parsePrice(u.pr["price"])
        l == PriceGaugeLabels(u.pr, q)
    IN  IF u.err \/ ~p.ok THEN [pmin |-> pmin, pmax |-> pmax, fuel |-> fuel]
        ELSE [pmin |-> GaugeSet(pmin, l, p.val),
              pmax |-> GaugeSet(pmax, l, p.val),
              fuel |-> IF u.pr["fuel"] # "" THEN Inc(fuel, u.pr["fuel"]) ELSE fuel]

\* lines 317-328: the metrics derived from a fetched price payload
PayloadMetrics(data, q, pmin, pmax, fuel) ==
    LET u == UnmarshalPR(data)
        p == parsePrice(u.pr["price"])
        l == PriceGaugeLabels(u.pr, q)
    IN  IF u.err THEN [pmin |-> pmin, pmax |-> pmax, fuel |-> fuel]
        ELSE [pmin |-> IF p.ok THEN GaugeSet(pmin, l, p.val) ELSE pmin,
              pmax |-> IF p.ok THEN GaugeSet(pmax, l, p.val) ELSE pmax,
              fuel |-> IF u.pr["fuel"] # "" THEN Inc(fuel, u.pr["fuel"]) ELSE fuel]

\* the record of the calls: the price parsed from a payload joins the prices
\* observed for the labels of its gauges
NoteObserved(obs, data, q) ==
    LET u == UnmarshalPR(data)
        p == parsePrice(u.pr["price"])
        l == <<u.pr["brand"], u.pr["model"], q.yearId>>
    IN  IF u.err \/ ~p.ok THEN obs
        ELSE [x \in DOMAIN obs \cup {l} |->
                IF x = l THEN (IF l \in DOMAIN obs THEN obs[l] ELSE {}) \cup {p.val}
                ELSE obs[x]]

\* a list payload of the upstream (brands, models or years)
List(n) == [kind |-> "scalar", enc |-> "upstream", f |-> NoFields, id |-> n]
ListBodies == {List(1), List(2)}

BrandsRequests == {[type |-> t] : t \in {"", "cars"}}
ModelsRequests == {[type |-> "cars", brandId |-> "23"]}
YearsRequests  == {[type |-> "cars", brandId |-> "23", modelId |-> "5585"]}
PriceRequests  == {[type |-> "cars", brandId |-> "23", modelId |-> "5585",
                    yearId |-> "2014-1", brandName |-> "Ford",
                    modelName |-> "Fiesta 1.6"]}
PriceRequestsWide ==
    {[type |-> "cars", brandId |-> "23", modelId |-> "5585",
      yearId |-> y, brandName |-> b, modelName |-> "Fiesta 1.6"] :
        y \in {"2014-1", "2015-1"}, b \in {"Ford"}}
\* bodies the price endpoint answers to the price handler
PriceHandlerBodies == {RecA, RecB, RecNoQuote, Legacy, Raw("malformed")}

NoLast == [op |-> "none", key |-> "", resp |-> NoResp, fetches |-> 0]

ProxyInit ==
    /\ now = 0
    /\ cache = <<>>
    /\ stored = <<>>
    /\ searchStats = <<>>
    /\ brandCount = <<>>
    /\ fuelCount = <<>>
    /\ priceMin = <<>>
    /\ priceMax = <<>>
    /\ observed = <<>>
    /\ last = NoLast

metricVars == <<searchStats, brandCount, fuelCount, priceMin, priceMax, observed>>

\* time passes
Tick ==
    /\ now < 12 * MaxClock
    /\ now' = now + 12
    /\ UNCHANGED <<cache, stored, metricVars, last>>
    /\ UNCHANGED <<histVars, parseVars, concVars>>

\* a brands, models or years request, given its key and TTL
Passthrough(op, key, ttl, out) ==
    LET r == CachedFetch(cache, key, out, ttl, now)
    IN  /\ cache' = r.cache
        /\ stored' = IF r.set THEN NoteSet(stored, key, out.body, ttl, now)
                     ELSE stored
        /\ last' = [op |-> op, key |-> key, resp |-> r.resp, fetches |-> r.fetches]
        /\ UNCHANGED <<now, metricVars>>
        /\ UNCHANGED <<histVars, parseVars, concVars>>

handleGetBrands(q, out) == Passthrough("brands", BrandsKey(q), TTLBrands, out)
handleGetModels(q, out) == Passthrough("models", ModelsKey(q), TTLModels, out)
handleGetYears(q, out)  == Passthrough("years", YearsKey(q), TTLYears, out)

\* variant: the price handler goes through the cache like the others
handleGetPriceCached(q, out) ==
    /\ Count(searchStats, <<q.brandName, q.modelName, q.yearId>>) < MaxCount
    /\ searchStats' = Inc(searchStats, <<q.brandName, q.modelName, q.yearId>>)
    /\ brandCount' = Inc(brandCount, q.brandName)
    /\ LET key == "price:" \o q.type \o ":" \o q.brandId \o ":" \o q.modelId
                  \o ":" \o q.yearId
           r == CachedFetch(cache, key, out, TTLYears, now)
       IN  /\ cache' = r.cache
           /\ stored' = IF r.set THEN NoteSet(stored, key, out.body, TTLYears, now)
                        ELSE stored
           /\ last' = [op |-> "price", key |-> "", resp |-> r.resp,
                       fetches |-> r.fetches]
    /\ UNCHANGED <<now, fuelCount, priceMin, priceMax, observed>>
    /\ UNCHANGED <<histVars, parseVars, concVars>>

\* variant: the search is counted after the fetch, and only if it succeeded
handleGetPriceCountsOnSuccess(q, out) ==
    /\ Count(searchStats, <<q.brandName, q.modelName, q.yearId>>) < MaxCount
    /\ searchStats' = IF out.ok
                      THEN Inc(searchStats, <<q.brandName, q.modelName, q.yearId>>)
                      ELSE searchStats
    /\ brandCount' = Inc(brandCount, q.brandName)
    /\ last' = [op |-> "price", key |-> "",
                resp |-> IF out.ok THEN OkResponse(out.body)
                         ELSE ErrorResponse(502, out.err),
                fetches |-> 1]
    /\ UNCHANGED <<now, cache, stored, fuelCount, priceMin, priceMax, observed>>
    /\ UNCHANGED <<histVars, parseVars, concVars>>

handleGetPrice(q, out) ==
    /\ Count(searchStats, <<q.brandName, q.modelName, q.yearId>>) < MaxCount
    /\ searchStats' = Inc(searchStats, <<q.brandName, q.modelName, q.yearId>>)
    /\ brandCount' = Inc(brandCount, q.brandName)
    /\ IF ~out.ok
       THEN /\ last' = [op |-> "price", key |-> "",
                        resp |-> ErrorResponse(502, out.err), fetches |-> 1]
            /\ UNCHANGED <<fuelCount, priceMin, priceMax, observed>>
       ELSE LET m == PayloadMetrics(out.body, q, priceMin, priceMax, fuelCount)
            IN  /\ observed' = NoteObserved(observed, out.body, q)
                /\ priceMin' = m.pmin
                /\ priceMax' = m.pmax
                /\ fuelCount' = m.fuel
                /\ last' = [op |-> "price", key |-> "",
                            resp |-> OkResponse(out.body), fetches |-> 1]
    /\ UNCHANGED <<now, cache, stored>>
    /\ UNCHANGED <<histVars, parseVars, concVars>>

\* the legacy variant of the handlers: no cache, a failed fetch answers 500
legacyPassthrough(op, out) ==
    /\ last' = [op |-> op, key |-> "",
                resp |-> IF out.ok THEN OkResponse(out.body)
                         ELSE ErrorResponse(500, out.err),
                fetches |-> 1]
    /\ UNCHANGED <<now, cache, stored, metricVars>>
    /\ UNCHANGED <<histVars, parseVars, concVars>>

legacyHandleGetBrands(q, out) == legacyPassthrough("legacy brands", out)
legacyHandleGetModels(q, out) == legacyPassthrough("legacy models", out)
legacyHandleGetYears(q, out)  == legacyPassthrough("legacy years", out)

legacyHandleGetPrice(q, out) ==
    /\ Count(searchStats, <<q.brandName, q.modelName, q.yearId>>) < MaxCount
    /\ searchStats' = Inc(searchStats, <<q.brandName, q.modelName, q.yearId>>)
    /\ last' = [op |-> "legacy price", key |-> "",
                resp |-> IF out.ok THEN OkResponse(out.body)
                         ELSE ErrorResponse(500, out.err),
                fetches |-> 1]
    /\ UNCHANGED <<now, cache, stored, brandCount, fuelCount, priceMin, priceMax,
                   observed>>
    /\ UNCHANGED <<histVars, parseVars, concVars>>

\* query parameters are free text: requests whose parameters hold a colon
ModelsRequestsWide ==
    {[type |-> "cars", brandId |-> "23"],
     [type |-> "cars", brandId |-> "23:5"],
     [type |-> "cars:23", brandId |-> "5"]}
YearsRequestsWide ==
    {[type |-> "cars", brandId |-> "23:5", modelId |-> "9"],
     [type |-> "cars", brandId |-> "23", modelId |-> "5:9"]}

\* the payload the upstream serves at url u
Page(u) == [kind |-> "scalar", enc |-> "upstream", f |-> NoFields, id |-> u]

\* requests to the three cached routes with free-text parameters, each
\* upstream URL serving its own payload, the clock running
KeysNext ==
    \/ Tick
    \/ \E q \in BrandsRequests :
         \E out \in Outcomes(BrandsURL(q), {Page(BrandsURL(q))}) :
            handleGetBrands(q, out)
    \/ \E q \in ModelsRequestsWide :
         \E out \in Outcomes(ModelsURL(q), {Page(ModelsURL(q))}) :
            handleGetModels(q, out)
    \/ \E q \in YearsRequestsWide :
         \E out \in Outcomes(YearsURL(q), {Page(YearsURL(q))}) :
            handleGetYears(q, out)

\* requests to the three cached routes, the clock running
CachedNext ==
    \/ Tick
    \/ \E q \in BrandsRequests : \E out \in Outcomes(BrandsURL(q), ListBodies) :
          handleGetBrands(q, out)
    \/ \E q \in ModelsRequests : \E out \in Outcomes(ModelsURL(q), ListBodies) :
          handleGetModels(q, out)
    \/ \E q \in YearsRequests : \E out \in Outcomes(YearsURL(q), ListBodies) :
          handleGetYears(q, out)

\* requests to the four proxy routes and to their legacy variant, all within
\* the same hour
RoutesNext ==
    \/ \E q \in BrandsRequests : \E out \in Outcomes(BrandsURL(q), ListBodies) :
          handleGetBrands(q, out)
    \/ \E q \in ModelsRequests : \E out \in Outcomes(ModelsURL(q), ListBodies) :
          handleGetModels(q, out)
    \/ \E q \in YearsRequests : \E out \in Outcomes(YearsURL(q), ListBodies) :
          handleGetYears(q, out)
    \/ \E q \in PriceRequests : \E out \in Outcomes(PriceURL(q), {RecA}) :
          handleGetPrice(q, out)
    \/ \E q \in BrandsRequests : \E out \in Outcomes(BrandsURL(q), ListBodies) :
          legacyHandleGetBrands(q, out)
    \/ \E q \in ModelsRequests : \E out \in Outcomes(ModelsURL(q), ListBodies) :
          legacyHandleGetModels(q, out)
    \/ \E q \in YearsRequests : \E out \in Outcomes(YearsURL(q), ListBodies) :
          legacyHandleGetYears(q, out)
    \/ \E q \in PriceRequests : \E out \in Outcomes(PriceURL(q), {RecA}) :
          legacyHandleGetPrice(q, out)

\* price requests alone, over more vehicles and more upstream answers
PriceNext ==
    \E q \in PriceRequestsWide :
       \E out \in Outcomes(PriceURL(q), PriceHandlerBodies) :
          handleGetPrice(q, out)

\* direct calls of the cache functions
CallSetCached(key, data, ttl) ==
    /\ cache' = setCached(cache, key, data, ttl, now)
    /\ stored' = NoteSet(stored, key, data, ttl, now)
    /\ last' = [op |-> "set", key |-> key, resp |-> NoResp, fetches |-> 0]
    /\ UNCHANGED <<now, metricVars>>
    /\ UNCHANGED <<histVars, parseVars, concVars>>

\* variant: a lookup that finds an expired entry deletes it
CallGetCachedPurges(key) ==
    /\ LET g == getCached(cache, key, now)
       IN  /\ last' = [op |-> "get", key |-> key,
                       resp |-> [status |-> IF g.ok THEN 1 ELSE 0, body |-> g.data],
                       fetches |-> 0]
           /\ cache' = IF g.ok THEN cache
                       ELSE [k \in DOMAIN cache \ {key} |-> cache[k]]
    /\ UNCHANGED <<now, stored, metricVars>>
    /\ UNCHANGED <<histVars, parseVars, concVars>>

CallGetCached(key) ==
    /\ LET g == getCached(cache, key, now)
       IN  last' = [op |-> "get", key |-> key,
                    resp |-> [status |-> IF g.ok THEN 1 ELSE 0, body |-> g.data],
                    fetches |-> 0]
    /\ UNCHANGED <<now, cache, stored, metricVars>>
    /\ UNCHANGED <<histVars, parseVars, concVars>>

CacheKeys == {"brands:cars", "models:cars:23"}
\* time-to-live values of the direct calls, in hours
CacheTTLs == {0, 12, 24}

CacheNext ==
    \/ Tick
    \/ \E key \in CacheKeys, data \in ListBodies, ttl \in CacheTTLs :
          CallSetCached(key, data, ttl)
    \/ \E key \in CacheKeys : CallGetCached(key)

-----------------------------------------------------------------------------
(* handleGetPriceHistory.                                                  *)

DefaultMonths == 12
NumCandidates == 5

\* the vehicle of the request: /{type}/brands/{b}/models/{m}/years/{y}
ReqPath == "/cars/brands/23/models/5585/years/2014-1"

HistURL(n) == ReqPath \o "/history?months=" \o Itoa(n)
SingleURL  == ReqPath
\* variant: the path shapes are tried before the query parameters
CandidateURLsPathFirst(ref) ==
    <<ReqPath \o "/history/" \o ref,
      ReqPath \o "/historico/" \o ref,
      ReqPath \o "?referenceMonth=" \o ref,
      ReqPath \o "?reference=" \o ref,
      ReqPath \o "?month=" \o ref>>

CandidateURLs(ref) ==
    <<ReqPath \o "?referenceMonth=" \o ref,
      ReqPath \o "?reference=" \o ref,
      ReqPath \o "?month=" \o ref,
      ReqPath \o "/history/" \o ref,
      ReqPath \o "/historico/" \o ref>>

\* the months query parameter: absent, not a number, or an integer
MonthsParam(kind, n) == [kind |-> kind, n |-> n]

\* strconv.Atoi
Atoi(p) == IF p.kind = "int" THEN [err |-> FALSE, n |-> p.n]
           ELSE [err |-> TRUE, n |-> 0]

\* variant: the month count is capped at the default
EffectiveMonthsCapped(p) ==
    LET s == IF p.kind = "absent" THEN MonthsParam("int", DefaultMonths) ELSE p
        a == Atoi(s)
    IN  IF a.err \/ a.n <= 0 \/ a.n > DefaultMonths THEN DefaultMonths ELSE a.n

EffectiveMonths(p) ==
    LET s == IF p.kind = "absent" THEN MonthsParam("int", DefaultMonths) ELSE p
        a == Atoi(s)
    IN  IF a.err \/ a.n <= 0 THEN DefaultMonths ELSE a.n

\* variant: elements that are not objects are dropped from the array
NativeResponseObjectsOnly(data, t) ==
    IF IsValidJSON(data) /\ data.kind = "envelope"
    THEN [status |-> 200,
          body |-> Envelope("go",
                     SelectSeq([i \in 1..Len(data.history) |->
                        LET item == data.history[i]
                        IN  IF item.kind = "object"
                            THEN [item EXCEPT !.f["referenceMonth"] =
                                    Str(MonthLabel(AddDate(t, -(i - 1))))]
                            ELSE item], LAMBDA d : d.kind = "object"),
                     data.meta)]
    ELSE [status |-> 200, body |-> data]

\* variant: a body of another shape is decoded and encoded again
NativeResponseReencodes(data, t) ==
    IF IsValidJSON(data) /\ data.kind = "envelope"
    THEN [status |-> 200,
          body |-> Envelope("go",
                     [i \in 1..Len(data.history) |->
                        LET item == data.history[i]
                        IN  IF item.kind = "object"
                            THEN [item EXCEPT !.f["referenceMonth"] =
                                    Str(MonthLabel(AddDate(t, -(i - 1))))]
                            ELSE item],
                     data.meta)]
    ELSE [status |-> 200,
          body |-> IF IsValidJSON(data) THEN [data EXCEPT !.enc = "go"] ELSE data]

\* the native branch: relabel the elements of the history array, or pass
\* the bytes through
NativeResponse(data, t) ==
    IF IsValidJSON(data) /\ data.kind = "envelope"
    THEN [status |-> 200,
          body |-> Envelope("go",
                     [i \in 1..Len(data.history) |->
                        LET item == data.history[i]
                        IN  IF item.kind = "object"
                            THEN [item EXCEPT !.f["referenceMonth"] =
                                    Str(MonthLabel(AddDate(t, -(i - 1))))]
                            ELSE item],
                     data.meta)]
    ELSE [status |-> 200, body |-> data]

\* variant: a record without price is accepted like any other
TryCandidateAcceptsEmptyPrice(out, ref) ==
    IF ~out.ok THEN [stop |-> FALSE, slot |-> Nil]
    ELSE
      LET b == out.body
          u == UnmarshalPR(b)
          parts == SplitRef(ref)
          pr == IF u.pr["referenceMonth"] = ""
                THEN [u.pr EXCEPT !["referenceMonth"] = parts[2] \o "/" \o parts[1]]
                ELSE u.pr
      IN  IF ~u.err THEN [stop |-> TRUE, slot |-> MarshalPR(pr)]
          ELSE IF UnmarshalMapOK(b) THEN [stop |-> TRUE, slot |-> MarshalMap(b)]
          ELSE [stop |-> TRUE, slot |-> b]

\* variant: the generic object is stored without looking for a Valor key
TryCandidateNoValorCopy(out, ref) ==
    IF ~out.ok THEN [stop |-> FALSE, slot |-> Nil]
    ELSE
      LET b == out.body
          u == UnmarshalPR(b)
          parts == SplitRef(ref)
          pr == IF u.pr["referenceMonth"] = ""
                THEN [u.pr EXCEPT !["referenceMonth"] = parts[2] \o "/" \o parts[1]]
                ELSE u.pr
      IN  IF ~u.err /\ pr["price"] = "" THEN [stop |-> FALSE, slot |-> Nil]
          ELSE IF ~u.err THEN [stop |-> TRUE, slot |-> MarshalPR(pr)]
          ELSE IF UnmarshalMapOK(b)
          THEN [stop |-> TRUE,
                slot |-> MarshalMap(
                   IF b.f["referenceMonth"].t \in {"absent", "null"}
                   THEN [b EXCEPT !.f["referenceMonth"] = Str(RefString(ref))]
                   ELSE b)]
          ELSE [stop |-> TRUE, slot |-> b]

\* one turn of the candidate loop of the month task whose reference date is
\* ref, on the outcome out of fetchExternal: stop with the slot to store, or
\* go on to the next candidate
TryCandidate(out, ref) ==
    IF ~out.ok THEN [stop |-> FALSE, slot |-> Nil]
    ELSE
      LET b == out.body
          u == UnmarshalPR(b)
          parts == SplitRef(ref)
          pr == IF u.pr["referenceMonth"] = ""
                THEN [u.pr EXCEPT !["referenceMonth"] = parts[2] \o "/" \o parts[1]]
                ELSE u.pr
      IN  IF ~u.err /\ pr["price"] = "" THEN [stop |-> FALSE, slot |-> Nil]
          ELSE IF ~u.err THEN [stop |-> TRUE, slot |-> MarshalPR(pr)]
          ELSE IF UnmarshalMapOK(b)
          THEN LET r1 == IF b.f["referenceMonth"].t \in {"absent", "null"}
                         THEN [b EXCEPT !.f["referenceMonth"] = Str(RefString(ref))]
                         ELSE b
                   r2 == IF r1.f["price"].t = "absent" /\ r1.f["Valor"].t # "absent"
                         THEN [r1 EXCEPT !.f["price"] = r1.f["Valor"]]
                         ELSE r1
               IN  [stop |-> TRUE, slot |-> MarshalMap(r2)]
          ELSE [stop |-> TRUE, slot |-> b]

\* the non-empty slots of offsets from..n-1, in offset order
RECURSIVE CollectFrom(_, _, _)
CollectFrom(res, from, n) ==
    IF from >= n THEN <<>>
    ELSE (IF IsEmptyBytes(res[from]) THEN <<>> ELSE <<res[from]>>)
         \o CollectFrom(res, from + 1, n)

Collect(res, n) == CollectFrom(res, 0, n)

\* variant: the final normalisation goes through the generic map only
NormalizeEntryKeepsExtras(doc, i, t) ==
    LET label == MonthLabel(AddDate(t, -i))
    IN  IF UnmarshalMapOK(doc)
        THEN MarshalMap([doc EXCEPT !.f["referenceMonth"] = Str(label)])
        ELSE doc

\* the final normalisation of the entry at index i (0 = current month)
NormalizeEntry(doc, i, t) ==
    LET u == UnmarshalPR(doc)
        label == MonthLabel(AddDate(t, -i))
    IN  IF ~u.err THEN MarshalPR([u.pr EXCEPT !["referenceMonth"] = label])
        ELSE IF UnmarshalMapOK(doc)
        THEN MarshalMap([doc EXCEPT !.f["referenceMonth"] = Str(label)])
        ELSE doc

\* normalise, wrap under "history", json.Marshal (its error dropped), write
FinalResponse(history, t) ==
    LET norm == [i \in 1..Len(history) |-> NormalizeEntry(history[i], i - 1, t)]
    IN  [status |-> 200,
         body |-> IF \E i \in 1..Len(norm) : ~IsValidJSON(norm[i])
                  THEN Nil
                  ELSE Envelope("go", norm, Absent)]

\* http.Error(w, "history fetch failed: %v, fallback failed: %v", 502)
BothFailed(err, err2) ==
    [status |-> 502,
     body |-> [kind |-> "error",
               msg |-> <<"history fetch failed: ", err,
                         ", fallback failed: ", err2>>]]

\* the offsets of the month tasks of a request of n months
Tasks(n) == 0..(n - 1)

\* calendar dates on which requests arrive
Dates == {[y |-> 2024, m |-> 1, d |-> 15],
          [y |-> 2024, m |-> 3, d |-> 31]}

\* values of the months parameter that requests carry
MonthsInputs == {MonthsParam("int", n) : n \in 1..MaxMonths}

HistInit ==
    /\ today = [y |-> 2024, m |-> 1, d |-> 15]
    /\ hpc = "idle"
    /\ months = 0
    /\ nativeErr = NoErr
    /\ cand = <<>>
    /\ tdone = <<>>
    /\ results = <<>>
    /\ resp = NoResp
    /\ fetched = <<>>
    /\ nfetch = 0

\* lines 354-367: a request arrives
HistRequest(date, p) ==
    /\ hpc \in {"idle", "done"}
    /\ today' = date
    /\ months' = EffectiveMonths(p)
    /\ hpc' = "native"
    /\ nativeErr' = NoErr
    /\ cand' = <<>>
    /\ tdone' = <<>>
    /\ results' = <<>>
    /\ resp' = NoResp
    /\ fetched' = <<>>
    /\ nfetch' = 0
    /\ UNCHANGED <<proxyVars, parseVars, concVars>>

\* lines 369-408: the native history fetch; on failure the month tasks start
\* variant: the month tasks are started whatever the native fetch returned
NativeFetchAlwaysProbes(out) ==
    /\ hpc = "native"
    /\ nfetch' = nfetch + 1
    /\ nativeErr' = out.err
    /\ hpc' = "fanout"
    /\ results' = [k \in Tasks(months) |-> Nil]
    /\ cand' = [k \in Tasks(months) |-> 0]
    /\ tdone' = [k \in Tasks(months) |-> FALSE]
    /\ fetched' = [k \in Tasks(months) |-> <<>>]
    /\ UNCHANGED <<today, months, resp>>
    /\ UNCHANGED <<proxyVars, parseVars, concVars>>

NativeFetch(out) ==
    /\ hpc = "native"
    /\ nfetch' = nfetch + 1
    /\ IF out.ok
       THEN /\ resp' = NativeResponse(out.body, today)
            /\ hpc' = "done"
            /\ UNCHANGED <<nativeErr, cand, tdone, results, fetched>>
       ELSE /\ nativeErr' = out.err
            /\ hpc' = "fanout"
            /\ results' = [k \in Tasks(months) |-> Nil]
            /\ cand' = [k \in Tasks(months) |-> 0]
            /\ tdone' = [k \in Tasks(months) |-> FALSE]
            /\ fetched' = [k \in Tasks(months) |-> <<>>]
            /\ UNCHANGED resp
    /\ UNCHANGED <<today, months>>
    /\ UNCHANGED <<proxyVars, parseVars, concVars>>

\* the candidate URL the task of offset k fetches next
TaskURL(k) ==
    CandidateURLs(RefString(AddDate(today, -k)))[
        IF cand[k] < NumCandidates THEN cand[k] + 1 ELSE 1]

\* variant: a task gives up one fetch later
TaskStepOneMoreFetch(k, out) ==
    /\ hpc = "fanout"
    /\ k \in DOMAIN tdone
    /\ ~tdone[k]
    /\ nfetch' = nfetch + 1
    /\ fetched' = [fetched EXCEPT ![k] = Append(@, TaskURL(k))]
    /\ LET r == TryCandidate(out, AddDate(today, -k))
       IN  /\ cand' = [cand EXCEPT ![k] = @ + 1]
           /\ results' = IF r.stop THEN [results EXCEPT ![k] = r.slot]
                         ELSE results
           /\ tdone' = [tdone EXCEPT ![k] = r.stop \/ cand[k] = NumCandidates]
    /\ UNCHANGED <<today, hpc, months, nativeErr, resp>>
    /\ UNCHANGED <<proxyVars, parseVars, concVars>>

\* lines 409-468: the task of offset k fetches its next candidate
TaskStep(k, out) ==
    /\ hpc = "fanout"
    /\ k \in DOMAIN tdone
    /\ ~tdone[k]
    /\ nfetch' = nfetch + 1
    /\ fetched' = [fetched EXCEPT ![k] = Append(@, TaskURL(k))]
    /\ LET r == TryCandidate(out, AddDate(today, -k))
       IN  /\ cand' = [cand EXCEPT ![k] = @ + 1]
           /\ results' = IF r.stop THEN [results EXCEPT ![k] = r.slot]
                         ELSE results
           /\ tdone' = [tdone EXCEPT ![k] = r.stop \/ cand[k] + 1 = NumCandidates]
    /\ UNCHANGED <<today, hpc, months, nativeErr, resp>>
    /\ UNCHANGED <<proxyVars, parseVars, concVars>>

\* variant: the slots are collected without waiting for the month tasks
AssembleWithoutBarrier ==
    /\ hpc = "fanout"
    /\ LET history == Collect(results, months)
       IN  IF Len(history) = 0
           THEN /\ hpc' = "single"
                /\ UNCHANGED resp
           ELSE /\ hpc' = "done"
                /\ resp' = FinalResponse(history, today)
    /\ UNCHANGED <<today, months, nativeErr, cand, tdone, results, fetched, nfetch>>
    /\ UNCHANGED <<proxyVars, parseVars, concVars>>

\* lines 470-480 and 491-518: after wg.Wait(), collect; respond unless empty
Assemble ==
    /\ hpc = "fanout"
    /\ \A k \in DOMAIN tdone : tdone[k]
    /\ LET history == Collect(results, months)
       IN  IF Len(history) = 0
           THEN /\ hpc' = "single"
                /\ UNCHANGED resp
           ELSE /\ hpc' = "done"
                /\ resp' = FinalResponse(history, today)
    /\ UNCHANGED <<today, months, nativeErr, cand, tdone, results, fetched, nfetch>>
    /\ UNCHANGED <<proxyVars, parseVars, concVars>>

\* lines 480-518: the single current-price fallback
SingleFetch(out) ==
    /\ hpc = "single"
    /\ nfetch' = nfetch + 1
    /\ resp' = IF out.ok THEN FinalResponse(<<out.body>>, today)
               ELSE BothFailed(nativeErr, out.err)
    /\ hpc' = "done"
    /\ UNCHANGED <<today, months, nativeErr, cand, tdone, results, fetched>>
    /\ UNCHANGED <<proxyVars, parseVars, concVars>>

HistNext ==
    \/ \E date \in Dates, p \in MonthsInputs : HistRequest(date, p)
    \/ \E out \in Outcomes(HistURL(months), NativeBodies) : NativeFetch(out)
    \/ \E k \in DOMAIN tdone :
         \E out \in Outcomes(TaskURL(k), PriceBodies) : TaskStep(k, out)
    \/ Assemble
    \/ \E out \in Outcomes(SingleURL, PriceBodies) : SingleFetch(out)

\* values of the months parameter of every kind: absent, not a number, not
\* positive, small, and above the default
MonthsInputsWide ==
    {MonthsParam("absent", 0), MonthsParam("text", 0),
     MonthsParam("int", 0), MonthsParam("int", -1)}
    \cup {MonthsParam("int", n) : n \in 1..MaxMonths}
    \cup {MonthsParam("int", DefaultMonths + 1)}

\* requests of every month count whose upstream is down.  The month tasks
\* write disjoint slots, so their steps commute: they are run in offset order.
MonthsNext ==
    \/ \E date \in Dates, p \in MonthsInputsWide : HistRequest(date, p)
    \/ \E out \in Outcomes(HistURL(months), {Raw("scalar")}) : NativeFetch(out)
    \/ \E k \in DOMAIN tdone :
         /\ \A j \in DOMAIN tdone : j < k => tdone[j]
         /\ \E out \in Outcomes(TaskURL(k), {}) : TaskStep(k, out)
    \/ Assemble
    \/ \E out \in Outcomes(SingleURL, {RecA}) : SingleFetch(out)

\* bodies the candidates answer when they all answer
ProbeBodies == PriceBodies \cup {LegacyWithPrice}

\* requests whose native endpoint is down and whose candidates all answer
ProbeNext ==
    \/ \E date \in Dates, p \in MonthsInputs : HistRequest(date, p)
    \/ \E out \in Outcomes(HistURL(months), {}) : NativeFetch(out)
    \/ \E k \in DOMAIN tdone : \E b \in ProbeBodies : TaskStep(k, Ok(b))
    \/ Assemble
    \/ \E out \in Outcomes(SingleURL, {RecA}) : SingleFetch(out)

\* bodies of the requests whose termination is examined
LiveNativeBodies == {Envelope("upstream", <<ItemB, ItemA>>, Absent)}
LiveBodies == {RecA, RecNoPrice}
LiveDate == [y |-> 2024, m |-> 3, d |-> 31]

NativeReturns == \E out \in Outcomes(HistURL(months), LiveNativeBodies) : NativeFetch(out)
TaskFetchReturns(k) ==
    /\ k \in DOMAIN tdone
    /\ \E out \in Outcomes(TaskURL(k), LiveBodies) : TaskStep(k, out)
SingleReturns == \E out \in Outcomes(SingleURL, LiveBodies) : SingleFetch(out)

LiveNext ==
    \/ \E p \in MonthsInputs : HistRequest(LiveDate, p)
    \/ NativeReturns
    \/ \E k \in Tasks(MaxMonths) : TaskFetchReturns(k)
    \/ Assemble
    \/ SingleReturns

\* every fetch returns, every goroutine is scheduled
LiveFairness ==
    /\ WF_vars(NativeReturns)
    /\ \A k \in Tasks(MaxMonths) : WF_vars(TaskFetchReturns(k))
    /\ WF_vars(Assemble)
    /\ WF_vars(SingleReturns)

-----------------------------------------------------------------------------
(* Passthrough handlers in concurrent goroutines, step by step.            *)

Threads == 1..MaxThreads

\* a request to a cached route: its key, upstream URL and TTL
ConcRequests ==
    {[key |-> BrandsKey(q), url |-> BrandsURL(q), ttl |-> TTLBrands] :
        q \in BrandsRequests}

NoReq == [key |-> "", url |-> "", ttl |-> 0]
IdleLoc == [req |-> NoReq, own |-> Nil, fetchedOk |-> FALSE, partial |-> FALSE,
            resp |-> NoResp]

ConcIdle ==
    /\ tpc = [t \in Threads |-> "idle"]
    /\ tloc = [t \in Threads |-> IdleLoc]
    /\ rw = [readers |-> 0, writer |-> FALSE]
    /\ writing = {}

\* net/http starts the handler of a request in goroutine t
Arrive(t, req) ==
    /\ tpc[t] = "idle"
    /\ tpc' = [tpc EXCEPT ![t] = "getCached"]
    /\ tloc' = [tloc EXCEPT ![t] = [IdleLoc EXCEPT !.req = req]]
    /\ UNCHANGED <<rw, writing>>
    /\ UNCHANGED <<histVars, proxyVars, parseVars>>

\* variant: a reader does not wait for the writer
RLockIgnoresWriter(t) ==
    /\ tpc[t] = "getCached"
    /\ rw' = [rw EXCEPT !.readers = @ + 1]
    /\ tpc' = [tpc EXCEPT ![t] = "inGet"]
    /\ UNCHANGED <<tloc, writing>>
    /\ UNCHANGED <<histVars, proxyVars, parseVars>>

\* line 115: cacheMu.RLock() returns once no writer holds the mutex
RLock(t) ==
    /\ tpc[t] = "getCached"
    /\ ~rw.writer
    /\ rw' = [rw EXCEPT !.readers = @ + 1]
    /\ tpc' = [tpc EXCEPT ![t] = "inGet"]
    /\ UNCHANGED <<tloc, writing>>
    /\ UNCHANGED <<histVars, proxyVars, parseVars>>

\* lines 116-121 and the handler's branch on ok: the lookup, RUnlock, then
\* either the cached payload is written or the handler goes on to fetch
GetCachedReturns(t) ==
    /\ tpc[t] = "inGet"
    /\ rw' = [rw EXCEPT !.readers = @ - 1]
    /\ LET key == tloc[t].req.key
           g == getCached(cache, key, now)
       IN  /\ tloc' = [tloc EXCEPT ![t].partial = key \in writing,
                                   ![t].resp = IF g.ok THEN OkResponse(g.data)
                                               ELSE NoResp]
           /\ tpc' = [tpc EXCEPT ![t] = IF g.ok THEN "done" ELSE "fetch"]
    /\ UNCHANGED writing
    /\ UNCHANGED <<histVars, proxyVars, parseVars>>

\* variant: after a successful fetch the handler asks the cache again and
\* answers what another request has stored meanwhile
FetchReturnsChecksAgain(t, out) ==
    /\ tpc[t] = "fetch"
    /\ LET g == getCached(cache, tloc[t].req.key, now)
       IN  IF ~out.ok
           THEN /\ tloc' = [tloc EXCEPT ![t].resp = ErrorResponse(502, out.err)]
                /\ tpc' = [tpc EXCEPT ![t] = "done"]
           ELSE IF g.ok
           THEN /\ tloc' = [tloc EXCEPT ![t].own = out.body,
                                        ![t].fetchedOk = TRUE,
                                        ![t].resp = OkResponse(g.data)]
                /\ tpc' = [tpc EXCEPT ![t] = "done"]
           ELSE /\ tloc' = [tloc EXCEPT ![t].own = out.body,
                                        ![t].fetchedOk = TRUE]
                /\ tpc' = [tpc EXCEPT ![t] = "setCached"]
    /\ UNCHANGED <<rw, writing>>
    /\ UNCHANGED <<histVars, proxyVars, parseVars>>

\* fetchExternal returns: 502 on an error, else on to setCached
FetchReturns(t, out) ==
    /\ tpc[t] = "fetch"
    /\ IF ~out.ok
       THEN /\ tloc' = [tloc EXCEPT ![t].resp = ErrorResponse(502, out.err)]
            /\ tpc' = [tpc EXCEPT ![t] = "done"]
       ELSE /\ tloc' = [tloc EXCEPT ![t].own = out.body, ![t].fetchedOk = TRUE]
            /\ tpc' = [tpc EXCEPT ![t] = "setCached"]
    /\ UNCHANGED <<rw, writing>>
    /\ UNCHANGED <<histVars, proxyVars, parseVars>>

\* line 125: cacheMu.Lock() returns once nobody holds the mutex
Lock(t) ==
    /\ tpc[t] = "setCached"
    /\ rw = [readers |-> 0, writer |-> FALSE]
    /\ rw' = [rw EXCEPT !.writer = TRUE]
    /\ tpc' = [tpc EXCEPT ![t] = "inSet"]
    /\ UNCHANGED <<tloc, writing>>
    /\ UNCHANGED <<histVars, proxyVars, parseVars>>

\* line 127 begins: the map assignment is not atomic
StoreBegins(t) ==
    /\ tpc[t] = "inSet"
    /\ writing' = writing \cup {tloc[t].req.key}
    /\ tpc' = [tpc EXCEPT ![t] = "storing"]
    /\ UNCHANGED <<tloc, rw>>
    /\ UNCHANGED <<histVars, proxyVars, parseVars>>

\* line 127 ends, Unlock, and the handler writes the payload it fetched
Unlock(t) ==
    /\ tpc[t] = "storing"
    /\ LET r == tloc[t].req
       IN  /\ cache' = setCached(cache, r.key, tloc[t].own, r.ttl, now)
           /\ stored' = NoteSet(stored, r.key, tloc[t].own, r.ttl, now)
           /\ writing' = writing \ {r.key}
    /\ rw' = [rw EXCEPT !.writer = FALSE]
    /\ tloc' = [tloc EXCEPT ![t].resp = OkResponse(tloc[t].own)]
    /\ tpc' = [tpc EXCEPT ![t] = "done"]
    /\ UNCHANGED <<now, metricVars, last>>
    /\ UNCHANGED <<histVars, parseVars>>

\* the handler has returned; the goroutine is free for the next request
Leave(t) ==
    /\ tpc[t] = "done"
    /\ tpc' = [tpc EXCEPT ![t] = "idle"]
    /\ tloc' = [tloc EXCEPT ![t] = IdleLoc]
    /\ UNCHANGED <<rw, writing>>
    /\ UNCHANGED <<histVars, proxyVars, parseVars>>

ConcNext ==
    \/ Tick
    \/ \E t \in Threads, req \in ConcRequests : Arrive(t, req)
    \/ \E t \in Threads : RLock(t)
    \/ \E t \in Threads : GetCachedReturns(t)
    \/ \E t \in Threads :
         \E out \in Outcomes(tloc[t].req.url, ListBodies) : FetchReturns(t, out)
    \/ \E t \in Threads : Lock(t)
    \/ \E t \in Threads : StoreBegins(t)
    \/ \E t \in Threads : Unlock(t)
    \/ \E t \in Threads : Leave(t)

Init == ProxyInit /\ HistInit /\ ParseIdle /\ ConcIdle

\* parsePrice is about to be called on one of the strings
InitParse ==
    ProxyInit /\ HistInit /\ ConcIdle /\ pin \in PriceTexts /\ pout = NotCalled

SpecHist == Init /\ [][HistNext]_vars

SpecCached == Init /\ [][CachedNext]_vars

SpecRoutes == Init /\ [][RoutesNext]_vars

SpecPrice == Init /\ [][PriceNext]_vars

SpecCache == Init /\ [][CacheNext]_vars

SpecParse == InitParse /\ [][ParseNext]_vars

SpecMonths == Init /\ [][MonthsNext]_vars

SpecProbe == Init /\ [][ProbeNext]_vars

SpecConc == Init /\ [][ConcNext]_vars

SpecKeys == Init /\ [][KeysNext]_vars

SpecLive == Init /\ [][LiveNext]_vars /\ LiveFairness

-----------------------------------------------------------------------------
(* Properties of the price history handler.                                *)

\* the calendar month i months before the month of date t
CalendarMonthBefore(t, i) == NormMonth(t.y, t.m - i)
\* its MM/YYYY label
CalendarLabel(t, i) == Str(MonthLabel(CalendarMonthBefore(t, i)))

\* the handler has answered 200 with a history list built by the fallback
FallbackList ==
    /\ hpc = "done"
    /\ nativeErr # NoErr
    /\ resp.status = 200
    /\ resp.body.kind = "envelope"

\* C1: in every 200 response built on the per-month fallback path, on any
\* day of the month, the entry at index i is labelled with the calendar
\* month i months before the current one, and the labels of one response
\* are pairwise distinct.
C1_LabelsFollowCalendar ==
    FallbackList =>
      LET h == resp.body.history
          objs == {i \in 1..Len(h) : h[i].kind = "object"}
      IN  /\ \A i \in objs : h[i].f["referenceMonth"] = CalendarLabel(today, i - 1)
          /\ \A i, j \in objs :
                i # j => h[i].f["referenceMonth"] # h[j].f["referenceMonth"]

\* every month task of the request obtained an accepted record
AllProbesAccepted ==
    /\ hpc = "done"
    /\ nativeErr # NoErr
    /\ DOMAIN results = 0..(months - 1)
    /\ \A k \in DOMAIN results : results[k].kind = "object"

\* C2: when the native fetch fails and each of the N probes obtains an
\* accepted record, the response is 200 with exactly N entries, entry i being
\* the record of the probe of offset i, labelled current, current-1, ...
C2_AllProbesGiveLabelledList ==
    AllProbesAccepted =>
      /\ resp.status = 200
      /\ resp.body.kind = "envelope"
      /\ Len(resp.body.history) = months
      /\ \A i \in 1..months :
           LET e == resp.body.history[i] IN
             /\ e.kind = "object"
             /\ \A k \in PRKeys \ {"referenceMonth"} :
                   e.f[k].v = results[i - 1].f[k].v
             /\ e.f["referenceMonth"] = CalendarLabel(today, i - 1)

\* C3: when the native endpoint answers an object holding a history array,
\* the response is that object with the referenceMonth of the element at
\* index i set to the label of current month minus i, every other field,
\* the number and order of the elements and the other top-level keys kept.
C3_NativeRelabelled ==
    [][\A out \in Outcomes(HistURL(months), NativeBodies) :
          (NativeFetch(out) /\ out.ok /\ out.body.kind = "envelope") =>
             LET src == out.body.history
                 dst == resp'.body.history
             IN  /\ resp'.status = 200
                 /\ resp'.body.kind = "envelope"
                 /\ resp'.body.meta = out.body.meta
                 /\ Len(dst) = Len(src)
                 /\ \A i \in 1..Len(src) :
                      IF src[i].kind = "object"
                      THEN /\ dst[i].f["referenceMonth"] = CalendarLabel(today, i - 1)
                           /\ \A k \in ObjKeys \ {"referenceMonth"} :
                                 dst[i].f[k] = src[i].f[k]
                      ELSE dst[i] = src[i]]_vars

\* C4: if the native fetch fails and every candidate of every month fails,
\* the single current-price endpoint is fetched: on success the response is
\* 200 with a history list of exactly one element, on failure it is 502 and
\* the message carries the native error and the fallback error.
C4_SingleFallback ==
    [][\A out \in Outcomes(SingleURL, PriceBodies) :
          (SingleFetch(out) /\ (\A k \in DOMAIN cand : cand[k] = NumCandidates)) =>
             IF out.ok
             THEN /\ resp'.status = 200
                  /\ resp'.body.kind = "envelope"
                  /\ Len(resp'.body.history) = 1
             ELSE /\ resp'.status = 502
                  /\ resp'.body.msg[2] = nativeErr
                  /\ resp'.body.msg[4] = out.err
                  /\ nativeErr.url = HistURL(months)]_vars

\* C5 as stated: every history list returned, from the native endpoint or
\* from the fallback, has length at most the effective month count.
C5_LengthAtMostMonths ==
    (hpc = "done" /\ resp.status = 200 /\ resp.body.kind = "envelope") =>
       Len(resp.body.history) <= months

\* C5 as amended: a list built by the fallback has between one and `months`
\* entries; a list from the native endpoint has as many entries as the
\* upstream's array, whatever the month count.
C5_LengthByPath ==
    [][/\ (hpc' = "done" /\ nativeErr' # NoErr /\ resp'.status = 200
             /\ resp'.body.kind = "envelope") =>
            (1 <= Len(resp'.body.history) /\ Len(resp'.body.history) <= months')
       /\ \A out \in Outcomes(HistURL(months), NativeBodies) :
            (NativeFetch(out) /\ out.ok /\ out.body.kind = "envelope") =>
               Len(resp'.body.history) = Len(out.body.history)]_vars

\* a fallback list as long as the month count, of more than one entry
C5_Witness ==
    FallbackList /\ months > 1 /\ Len(resp.body.history) = months

-----------------------------------------------------------------------------
(* Properties of the cache and of the passthrough handlers.                *)

\* C6: getCached(key) returns (bytes, true) exactly when the key has been
\* stored and the current time is not after the expiry of its most recent
\* setCached, the bytes being those of that setCached; otherwise not-found.
C6_GetMatchesLatestSet ==
    \A key \in CacheKeys :
       getCached(cache, key, now) =
          IF key \in DOMAIN stored /\ ~(now > stored[key].at + stored[key].ttl)
          THEN [data |-> stored[key].data, ok |-> TRUE]
          ELSE [data |-> Nil, ok |-> FALSE]

\* a get of a stored key after its TTL has elapsed answered not-found, and
\* a get of the other key, still within its TTL, would answer its bytes
C6_Witness ==
    /\ last.op = "get"
    /\ last.key \in DOMAIN stored
    /\ stored[last.key].ttl > 0
    /\ now > stored[last.key].at + stored[last.key].ttl
    /\ last.resp.status = 0
    /\ \E k \in DOMAIN stored :
          /\ k # last.key
          /\ stored[k].ttl > 0
          /\ getCached(cache, k, now).ok

\* the key has an unexpired entry
Fresh(key) == key \in DOMAIN cache /\ ~(now > cache[key].expiresAt)

\* what a brands, models or years request of that key must do
CachedPost(key, hours, out) ==
    IF Fresh(key)
    THEN /\ last'.resp = [status |-> 200, body |-> cache[key].data]
         /\ last'.fetches = 0
    ELSE /\ last'.fetches = 1
         /\ out.ok =>
              /\ key \in DOMAIN cache'
              /\ cache'[key] = [data |-> out.body, expiresAt |-> now + hours]
              /\ last'.resp = [status |-> 200, body |-> out.body]

\* C7: brands, models and years: on an unexpired entry the handler returns
\* the cached bytes and fetches nothing; on a miss it fetches once and, on
\* success, stores the bytes under the key (12h brands and models, 24h
\* years) and returns them unmodified.
C7_CacheThenFetch ==
    [][/\ \A q \in BrandsRequests : \A out \in Outcomes(BrandsURL(q), ListBodies) :
            handleGetBrands(q, out) => CachedPost("brands:" \o BrandsType(q), 12, out)
       /\ \A q \in ModelsRequests : \A out \in Outcomes(ModelsURL(q), ListBodies) :
            handleGetModels(q, out) => CachedPost(ModelsKey(q), 12, out)
       /\ \A q \in YearsRequests : \A out \in Outcomes(YearsURL(q), ListBodies) :
            handleGetYears(q, out) => CachedPost(YearsKey(q), 24, out)]_vars

\* a years request was served from an entry more than twelve hours old
C7_Witness ==
    /\ last.op = "years"
    /\ last.fetches = 0
    /\ last.resp.status = 200
    /\ last.key \in DOMAIN stored
    /\ now > stored[last.key].at + 12
    /\ last.resp.body = stored[last.key].data

\* C8: every /api/price request makes exactly one upstream fetch, never
\* reads the cache and leaves the cache map unchanged.
C8_PriceNeverCached ==
    [][\A q \in PriceRequests : \A out \in Outcomes(PriceURL(q), {RecA}) :
          handleGetPrice(q, out) =>
             /\ last'.fetches = 1
             /\ cache' = cache
             /\ last'.resp.status = IF out.ok THEN 200 ELSE 502
             /\ out.ok => last'.resp.body = out.body]_vars

\* a second price request was answered while the cache held entries
C8_Witness ==
    /\ last.op = "price"
    /\ last.resp.status = 200
    /\ Count(searchStats, <<"Ford", "Fiesta 1.6", "2014-1">>) = 2
    /\ DOMAIN cache # {}

\* a failed fetch must answer `code` with the error text and keep the cache
FailedPost(code, out) ==
    /\ last'.resp.status = code
    /\ last'.resp.body.kind = "error"
    /\ last'.resp.body.msg = <<out.err>>
    /\ cache' = cache

\* C9: when the upstream fetch of a brands, models, years or price request
\* fails, the response is 502 with the error text (500 in the legacy
\* variant) and the cache map is left as it was.
C9_FailureIs502 ==
    [][/\ \A q \in BrandsRequests : \A out \in Outcomes(BrandsURL(q), ListBodies) :
            /\ (handleGetBrands(q, out) /\ ~out.ok /\ ~Fresh(BrandsKey(q)))
                  => FailedPost(502, out)
            /\ (legacyHandleGetBrands(q, out) /\ ~out.ok) => FailedPost(500, out)
       /\ \A q \in ModelsRequests : \A out \in Outcomes(ModelsURL(q), ListBodies) :
            /\ (handleGetModels(q, out) /\ ~out.ok /\ ~Fresh(ModelsKey(q)))
                  => FailedPost(502, out)
            /\ (legacyHandleGetModels(q, out) /\ ~out.ok) => FailedPost(500, out)
       /\ \A q \in YearsRequests : \A out \in Outcomes(YearsURL(q), ListBodies) :
            /\ (handleGetYears(q, out) /\ ~out.ok /\ ~Fresh(YearsKey(q)))
                  => FailedPost(502, out)
            /\ (legacyHandleGetYears(q, out) /\ ~out.ok) => FailedPost(500, out)
       /\ \A q \in PriceRequests : \A out \in Outcomes(PriceURL(q), {RecA}) :
            /\ (handleGetPrice(q, out) /\ ~out.ok) => FailedPost(502, out)
            /\ (legacyHandleGetPrice(q, out) /\ ~out.ok) => FailedPost(500, out)]_vars

\* a models request failed while the map held the entries of other keys
C9_Witness ==
    /\ last.op = "models"
    /\ last.resp.status = 502
    /\ "models:cars:23" \notin DOMAIN cache
    /\ DOMAIN cache # {}

\* the value the claim gives for a price string
ClaimedPrice(s) ==
    CASE s = "R$ 10.000,00" -> [n |-> 10000, e |-> 0]
      [] s = "R$ 9.500,00"  -> [n |-> 9500, e |-> 0]
      [] OTHER -> NaN

RECURSIVE Pow10(_)
Pow10(e) == IF e <= 0 THEN 1 ELSE 10 * Pow10(e - 1)
FloatLeq(a, b) == a.n * Pow10(b.e) <= b.n * Pow10(a.e)
MinOf(S) == CHOOSE x \in S : \A y \in S : FloatLeq(x, y)
MaxOf(S) == CHOOSE x \in S : \A y \in S : FloatLeq(y, x)

\* C11: after any sequence of successful price lookups of one (brand, model,
\* year), fipe_price_min of those labels holds the least of the prices
\* observed in the sequence and fipe_price_max the greatest.
C11_GaugesHoldMinAndMax ==
    \A l \in DOMAIN observed :
       /\ l \in DOMAIN priceMin /\ priceMin[l] = MinOf(observed[l])
       /\ l \in DOMAIN priceMax /\ priceMax[l] = MaxOf(observed[l])

\* payloads of the price endpoint that are not a price record, and records
\* whose price holds no number
Undecodable == {Legacy, Raw("malformed")}
Unparsable  == {RecNoQuote}

\* C12 as stated: when the price payload is fetched but cannot be decoded as
\* a price record, or its price string cannot be parsed, neither the price
\* gauges nor the fuel counter change, and the response is 200 with the
\* payload unmodified.
C12_ParseFailureKeepsMetrics ==
    [][\A q \in PriceRequestsWide : \A b \in Undecodable \cup Unparsable :
          handleGetPrice(q, Ok(b)) =>
             /\ priceMin' = priceMin /\ priceMax' = priceMax
             /\ fuelCount' = fuelCount
             /\ last'.resp = [status |-> 200, body |-> b]]_vars

\* C12 as amended: in both cases the price gauges do not change and the
\* response is 200 with the payload unmodified; the fuel counter does not
\* change when the payload cannot be decoded, and still grows by one for the
\* record's fuel when the record decodes and only its price cannot be parsed.
C12_ParseFailureKeepsGauges ==
    [][\A q \in PriceRequestsWide : \A b \in Undecodable \cup Unparsable :
          handleGetPrice(q, Ok(b)) =>
             /\ priceMin' = priceMin /\ priceMax' = priceMax
             /\ last'.resp = [status |-> 200, body |-> b]
             /\ b \in Undecodable => fuelCount' = fuelCount
             /\ b \in Unparsable =>
                   \A fl \in {"Gasoline", "Diesel", "Flex"} :
                      Count(fuelCount', fl) =
                         Count(fuelCount, fl) + (IF fl = b.f["fuel"].v THEN 1 ELSE 0)]_vars

\* a record whose price holds no number was returned as it came: its fuel
\* was counted and no gauge was set
C12_Witness ==
    /\ last.op = "price"
    /\ last.resp = [status |-> 200, body |-> RecNoQuote]
    /\ Count(fuelCount, "Flex") = 1
    /\ priceMin = <<>> /\ priceMax = <<>>

SearchLabels(q) == <<q.brandName, q.modelName, q.yearId>>

\* C13: every request handled by /api/price, whatever the upstream answers,
\* increments fipe_search_stats of its (brandName, modelName, yearId) by
\* exactly one and leaves the other label sets alone, and no step of the
\* program ever decreases the counter.
C13_SearchCounted ==
    [][/\ \A q \in PriceRequestsWide :
            \A out \in Outcomes(PriceURL(q), PriceHandlerBodies) :
               handleGetPrice(q, out) =>
                  /\ Count(searchStats', SearchLabels(q)) =
                        Count(searchStats, SearchLabels(q)) + 1
                  /\ \A r \in PriceRequestsWide :
                        SearchLabels(r) # SearchLabels(q) =>
                           Count(searchStats', SearchLabels(r)) =
                              Count(searchStats, SearchLabels(r))
       /\ \A l \in DOMAIN searchStats :
            l \in DOMAIN searchStats' /\ searchStats'[l] >= searchStats[l]]_vars

\* a request whose fetch failed was counted: the second search of one
\* vehicle, after one search of another
C13_Witness ==
    /\ last.op = "price"
    /\ last.resp.status = 502
    /\ Count(searchStats, <<"Ford", "Fiesta 1.6", "2015-1">>) = 2
    /\ Count(searchStats, <<"Ford", "Fiesta 1.6", "2014-1">>) = 1
    /\ Count(brandCount, "Ford") = 3

-----------------------------------------------------------------------------
(* Properties of parsePrice.                                               *)

DecimalDigits == {"0", "1", "2", "3", "4", "5", "6", "7", "8", "9"}
Separators == {".", ","}
DigitOf == ("0" :> 0) @@ ("1" :> 1) @@ ("2" :> 2) @@ ("3" :> 3) @@ ("4" :> 4)
           @@ ("5" :> 5) @@ ("6" :> 6) @@ ("7" :> 7) @@ ("8" :> 8) @@ ("9" :> 9)

\* the first maximal run of digits and separators of a text, <<>> if none
FirstRun(cs) ==
    LET in(i) == cs[i] \in DecimalDigits \cup Separators
        starts == {i \in 1..Len(cs) : in(i)}
    IN  IF starts = {} THEN <<>>
        ELSE LET i == CHOOSE x \in starts : \A y \in starts : x <= y
                 ends == {j \in i..Len(cs) : \A t \in i..j : in(t)}
                 j == CHOOSE x \in ends : \A y \in ends : y <= x
             IN  SubSeq(cs, i, j)

\* the run as the claim reads it
Reading(run) ==
    LET hasDot == \E i \in 1..Len(run) : run[i] = "."
        hasComma == \E i \in 1..Len(run) : run[i] = ","
        commaAsPoint(t) == [i \in 1..Len(t) |-> IF t[i] = "," THEN "." ELSE t[i]]
    IN  IF hasDot /\ hasComma
        THEN commaAsPoint(SelectSeq(run, LAMBDA c : c # "."))
        ELSE IF hasComma THEN commaAsPoint(run)
        ELSE run

\* a decimal numeral: digits with at most one point, and at least one digit
IsDecimal(t) ==
    /\ \A i \in 1..Len(t) : t[i] \in DecimalDigits \cup {"."}
    /\ Cardinality({i \in 1..Len(t) : t[i] = "."}) <= 1
    /\ \E i \in 1..Len(t) : t[i] \in DecimalDigits

RECURSIVE LeftVal(_, _)
LeftVal(acc, ds) == IF ds = <<>> THEN acc
                    ELSE LeftVal(10 * acc + DigitOf[Head(ds)], Tail(ds))

\* its value, as numerator and number of decimals
DecimalVal(t) ==
    LET pts == {i \in 1..Len(t) : t[i] = "."}
    IN  [n |-> LeftVal(0, SelectSeq(t, LAMBDA c : c # ".")),
         e |-> IF pts = {} THEN 0 ELSE Len(t) - (CHOOSE i \in pts : TRUE)]

FloatEq(a, b) == a.n * Pow10(b.e) = b.n * Pow10(a.e)

\* C14: for every string of digits, '.', ',' and surrounding text, parsePrice
\* takes the first maximal run of digits and separators and returns: with
\* both '.' and ',' present, the value with the dots removed and the comma
\* read as decimal point; with only ',' present, the value with the comma
\* read as decimal point; otherwise the run parsed as it is (an error when
\* the reading is not a numeral).  "1.234,56", "1234.56" and "1234,56" all
\* give 1234.56.
C14_ParsePriceReadsFirstRun ==
    (pout # NotCalled /\ FirstRun(pin) # <<>>) =>
       LET t == Reading(FirstRun(pin))
       IN  /\ IF IsDecimal(t)
              THEN pout.ok /\ FloatEq(pout.val, DecimalVal(t))
              ELSE ~pout.ok
           /\ pin \in Examples => (pout.ok /\ pout.val = [n |-> 123456, e |-> 2])

\* "1.234,56" was parsed to 1234.56
C14_Witness ==
    /\ pin = <<"1", ".", "2", "3", "4", ",", "5", "6">>
    /\ pout.ok
    /\ pout.val = [n |-> 123456, e |-> 2]

NoDigit(cs) == \A i \in 1..Len(cs) : cs[i] \notin DecimalDigits

\* C15 as stated: for every string that contains no digit, parsePrice fails
\* with the "no numeric part" error.
C15_NoDigitNoNumericPart ==
    (pout # NotCalled /\ NoDigit(pin)) =>
       (~pout.ok /\ pout.err = "no numeric part")

\* C15 as amended: for every string that contains no digit, parsePrice
\* fails: with the "no numeric part" error when the string holds no '.' and
\* no ',' either, and with the syntax error of strconv.ParseFloat when it
\* holds one.
C15_NoDigitFails ==
    (pout # NotCalled /\ NoDigit(pin)) =>
       /\ ~pout.ok
       /\ pout.err = IF \E i \in 1..Len(pin) : pin[i] \in Separators
                     THEN "invalid syntax" ELSE "no numeric part"

\* a string of text alone has been refused for want of a numeric part
C15_Witness ==
    /\ pin = <<" ", "R", "$", " ", " ", "x">>
    /\ ~pout.ok
    /\ pout.err = "no numeric part"

-----------------------------------------------------------------------------
(* Further properties of the price history handler.                        *)

\* the month count the claim gives for a months parameter
ClaimedMonths(p) == IF p.kind = "int" /\ p.n > 0 THEN p.n ELSE 12

\* C16: the effective month count of a history request is 12 when the months
\* parameter is absent, not an integer or not positive, and otherwise the
\* supplied value, uncapped; the fallback path launches exactly that many
\* month tasks, one for each offset 0 .. months-1.
C16_MonthsAndFanOut ==
    [][/\ \A date \in Dates, p \in MonthsInputsWide :
            HistRequest(date, p) => months' = ClaimedMonths(p)
       /\ hpc' = "fanout" =>
            /\ DOMAIN tdone' = 0..(months' - 1)
            /\ DOMAIN results' = 0..(months' - 1)
       /\ \A out \in Outcomes(HistURL(months), {Raw("scalar")}) :
            (NativeFetch(out) /\ ~out.ok) =>
               \A k \in 0..(months - 1) : ~tdone'[k] /\ cand'[k] = 0]_vars

\* a request without months parameter has run twelve month tasks, each
\* through its five candidates
C16_Witness ==
    /\ hpc = "single"
    /\ months = 12
    /\ DOMAIN cand = 0..11
    /\ \A k \in 0..11 : cand[k] = 5 /\ tdone[k]

\* C17: on the per-month fallback path a candidate whose body is malformed
\* JSON never fails the request: the response is 200 with a JSON body holding
\* a history list in which that body is passed through raw.
C17_MalformedPassedRaw ==
    (hpc = "done" /\ nativeErr # NoErr
       /\ \E k \in DOMAIN results : results[k].kind = "malformed") =>
       /\ resp.status = 200
       /\ resp.body.kind = "envelope"
       /\ \E i \in 1..Len(resp.body.history) :
             resp.body.history[i] = Raw("malformed")

\* C18: when the native history endpoint succeeds with a body that is not a
\* JSON object holding a history array, the handler answers 200 with the
\* upstream bytes unmodified, and no month task and no single-price fetch
\* is made.
C18_NativeRawPassthrough ==
    [][\A out \in Outcomes(HistURL(months), NativeBodies) :
          (NativeFetch(out) /\ out.ok /\ out.body.kind # "envelope") =>
             /\ resp' = [status |-> 200, body |-> out.body]
             /\ hpc' = "done"
             /\ DOMAIN tdone' = {} /\ DOMAIN fetched' = {}
             /\ nativeErr' = NoErr]_vars

\* a malformed body of the native endpoint was returned as it came
C18_Witness ==
    /\ hpc = "done"
    /\ nativeErr = NoErr
    /\ resp = [status |-> 200, body |-> Raw("malformed")]
    /\ DOMAIN fetched = {}

\* the candidate URL shapes in the order the claim gives them
ClaimedShapes == <<"?referenceMonth=", "?reference=", "?month=",
                   "/history/", "/historico/">>
ClaimedCandidates(t, k) ==
    [i \in 1..5 |-> ReqPath \o ClaimedShapes[i] \o RefString(AddDate(t, -k))]

IsPrefix(a, b) == Len(a) <= Len(b) /\ a = SubSeq(b, 1, Len(a))

\* C19: within one month task the five candidate URLs (referenceMonth=,
\* reference=, month=, /history/{ref}, /historico/{ref}) are fetched in that
\* order, each at most once; the task stops at the first accepted candidate
\* and fetches no later one, and a failed candidate is never retried.
C19_CandidatesInOrder ==
    [][\A k \in DOMAIN fetched' :
          /\ IsPrefix(fetched'[k], ClaimedCandidates(today', k))
          /\ \A i, j \in 1..Len(fetched'[k]) :
                i # j => fetched'[k][i] # fetched'[k][j]
          /\ ~IsEmptyBytes(results'[k]) => tdone'[k]
          /\ (k \in DOMAIN fetched /\ hpc = "fanout") =>
                /\ IsPrefix(fetched[k], fetched'[k])
                /\ Len(fetched'[k]) <= Len(fetched[k]) + 1
                /\ tdone[k] => fetched'[k] = fetched[k]]_vars

\* one month task stopped at its third candidate, which it accepted, while
\* the other went through all five without obtaining a record
C19_Witness ==
    /\ hpc = "fanout"
    /\ DOMAIN fetched = {0, 1}
    /\ tdone[0] /\ Len(fetched[0]) = 3 /\ results[0].kind = "object"
    /\ fetched[0][3] = ReqPath \o "?month=" \o RefString(today)
    /\ tdone[1] /\ Len(fetched[1]) = 5 /\ results[1] = Nil

\* candidate bodies that decode as a price record without price, and
\* bodies that do not decode as a price record at all
PricelessRecords == {RecNoPrice, Raw("null")}
NotRecords == {Raw("scalar"), Raw("malformed")}

\* C20 as stated: a month slot is never filled from a candidate response
\* that lacks a non-empty price.
C20_SlotsHavePrice ==
    \A k \in DOMAIN results :
       ~IsEmptyBytes(results[k]) =>
          /\ results[k].kind = "object"
          /\ results[k].f["price"].t = "str"
          /\ results[k].f["price"].v # ""

\* C20 as amended: a candidate that decodes as a price record with an empty
\* price is a non-match: the slot stays empty and the task goes on to the
\* next candidate, so a slot filled from a decoded record has a price; a
\* candidate that does not decode as a price record fills the slot as it
\* is, price or not.
C20_EmptyPriceRecordSkipped ==
    [][\A k \in DOMAIN tdone :
          /\ \A b \in PricelessRecords :
                TaskStep(k, Ok(b)) =>
                   /\ results'[k] = Nil
                   /\ cand'[k] = cand[k] + 1
                   /\ tdone'[k] <=> (cand[k] + 1 = 5)
          /\ \A b \in NotRecords :
                TaskStep(k, Ok(b)) => (results'[k] = b /\ tdone'[k])
          /\ \A b \in PriceBodies \ (PricelessRecords \cup NotRecords) :
                (TaskStep(k, Ok(b)) /\ \A key \in PRKeys : results'[k].f[key].t # "absent")
                   => results'[k].f["price"].v # ""]_vars

\* every candidate answering, a month task passed over a record without
\* price and accepted the record of its second candidate
C20_Witness ==
    /\ hpc = "fanout"
    /\ 0 \in DOMAIN cand
    /\ cand[0] = 2 /\ tdone[0]
    /\ results[0].kind = "object"
    /\ results[0].f["price"].v = "R$ 9.500,00"

\* C21: in the fan-out, the task of offset k writes only slot k and writes
\* it at most once, no two tasks write the same slot, the slots are read for
\* assembly only after every task has finished, and no slot changes once
\* assembly has begun.
C21_SlotsWrittenOnceBeforeAssembly ==
    [][/\ (hpc = "fanout" /\ hpc' = "fanout") =>
            \A k \in DOMAIN tdone :
               \A j \in DOMAIN results \ {k} :
                  results'[j] # results[j] =>
                     \A out \in Outcomes(TaskURL(k), PriceBodies) : ~TaskStep(k, out)
       /\ (hpc = "fanout" /\ hpc' = "fanout") =>
            \A k \in DOMAIN results :
               results'[k] # results[k] =>
                  (results[k] = Nil /\ ~tdone[k] /\ tdone'[k])
       /\ \A k \in DOMAIN tdone : (tdone[k] /\ hpc' # "native") => tdone'[k]
       /\ (hpc = "fanout" /\ hpc' \in {"single", "done"}) =>
            /\ \A k \in DOMAIN tdone : tdone[k]
            /\ DOMAIN tdone = 0..(months - 1)
       /\ (hpc \in {"single", "done"} /\ hpc' # "native") => results' = results]_vars

\* both month tasks have written their slot and the list was assembled
C21_Witness ==
    /\ hpc = "done"
    /\ months = 2
    /\ DOMAIN results = {0, 1}
    /\ results[0] # Nil /\ results[1] # Nil /\ results[0] # results[1]
    /\ resp.status = 200
    /\ resp.body.kind = "envelope"
    /\ Len(resp.body.history) = 2

\* the number of non-empty slots among offsets 0 .. n-1
RECURSIVE FilledUpTo(_, _)
FilledUpTo(res, n) ==
    IF n = 0 THEN 0
    ELSE FilledUpTo(res, n - 1) + (IF IsEmptyBytes(res[n - 1]) THEN 0 ELSE 1)

\* C22: after the barrier, a month's slot is empty exactly when none of its
\* five candidates was accepted, all five having been tried, whatever the
\* other months obtained; the assembled list is made of the non-empty slots
\* in increasing offset order.
C22_EmptySlotIffNoneAccepted ==
    (hpc \in {"single", "done"} /\ nativeErr # NoErr) =>
       /\ \A k \in DOMAIN results :
             IsEmptyBytes(results[k]) <=> (results[k] = Nil /\ Len(fetched[k]) = 5)
       /\ (hpc = "done" /\ resp.status = 200 /\ resp.body.kind = "envelope"
             /\ FilledUpTo(results, months) > 0) =>
             /\ Len(resp.body.history) = FilledUpTo(results, months)
             /\ \A k \in DOMAIN results :
                   ~IsEmptyBytes(results[k]) =>
                      resp.body.history[FilledUpTo(results, k + 1)].f["codeFipe"]
                         = results[k].f["codeFipe"]

\* the native history endpoint answered, or the request is not past it
NativeAnswered == hpc = "done" /\ nativeErr = NoErr

\* C23: the month tasks start only after the native history fetch has
\* failed; when it succeeds the request makes exactly one upstream fetch in
\* all and starts no month task.
C23_ProbingOnlyAfterNativeFailure ==
    [][/\ \A out \in Outcomes(HistURL(months), NativeBodies) :
            (NativeFetch(out) /\ out.ok) =>
               /\ nfetch' = 1
               /\ hpc' = "done"
               /\ DOMAIN tdone' = {} /\ DOMAIN fetched' = {}
       /\ (DOMAIN tdone' # {} \/ hpc' \in {"fanout", "single"}) =>
            (nativeErr' # NoErr /\ nfetch' >= 1)
       /\ (hpc' = "done" /\ nativeErr' = NoErr) =>
            (nfetch' = 1 /\ DOMAIN tdone' = {})]_vars

\* a request answered from the native endpoint: one fetch, no month task
C23_Witness ==
    /\ NativeAnswered
    /\ nfetch = 1
    /\ DOMAIN tdone = {}
    /\ resp.status = 200
    /\ resp.body.kind = "envelope"
    /\ Len(resp.body.history) = 2

-----------------------------------------------------------------------------
(* Further properties of the cache.                                        *)

\* C25: cache entries are never removed: getCached leaves the map as it is
\* even when it finds an expired entry, so the set of keys never shrinks,
\* and an entry, expired or not, changes only by a setCached of its key.
C25_EntriesNeverRemoved ==
    [][/\ DOMAIN cache \subseteq DOMAIN cache'
       /\ \A key \in CacheKeys : CallGetCached(key) => cache' = cache
       /\ \A k \in DOMAIN cache :
            cache'[k] # cache[k] => (last'.op = "set" /\ last'.key = k)]_vars

\* a lookup found an expired entry, answered not-found and left it in place
C25_Witness ==
    /\ last.op = "get"
    /\ last.resp.status = 0
    /\ last.key \in DOMAIN cache
    /\ now > cache[last.key].expiresAt
    /\ Cardinality(DOMAIN cache) = 2

-----------------------------------------------------------------------------
(* Properties of the month tasks and of the whole history request.         *)

\* candidate bodies that are JSON objects but not price records
GenericObjects == {Legacy, LegacyWithPrice}

\* C26: when a fetched candidate body does not decode as a price record but
\* decodes as a generic JSON object, the task stores that object with a
\* referenceMonth key added if it had none and, if it has no price key but
\* has the legacy Valor key, with price set to the Valor value; every other
\* key is kept, and the task tries no further candidate.
C26_GenericObjectStored ==
    [][\A k \in DOMAIN tdone : \A b \in GenericObjects :
          TaskStep(k, Ok(b)) =>
             LET slot == results'[k] IN
               /\ tdone'[k]
               /\ slot.kind = "object"
               /\ IF b.f["referenceMonth"].t = "absent"
                  THEN slot.f["referenceMonth"].t = "str"
                       /\ slot.f["referenceMonth"].v # ""
                  ELSE slot.f["referenceMonth"] = b.f["referenceMonth"]
               /\ IF b.f["price"].t = "absent" /\ b.f["Valor"].t # "absent"
                  THEN slot.f["price"] = b.f["Valor"]
                  ELSE slot.f["price"] = b.f["price"]
               /\ \A key \in ObjKeys \ {"referenceMonth", "price"} :
                     slot.f[key] = b.f[key]]_vars

\* the first task stored a legacy object at its first candidate: its Valor
\* is also its price, its own keys are kept and a referenceMonth was added
C26_Witness ==
    /\ hpc = "fanout"
    /\ 0 \in DOMAIN results
    /\ cand[0] = 1 /\ tdone[0]
    /\ results[0].kind = "object"
    /\ results[0].f["Valor"] = Str("R$ 9.000,00")
    /\ results[0].f["price"] = Str("R$ 9.000,00")
    /\ results[0].f["extra"] = Str("y")
    /\ results[0].f["referenceMonth"].t = "str"

\* C27: every fetch returning, every history request eventually writes
\* exactly one response; each month task ends after at most five fetches and
\* the request makes at most 1 + 5*N + 1 upstream fetches for month count N.
C27_RequestTerminates ==
    /\ [](/\ nfetch <= 1 + 5 * months + 1
          /\ \A k \in DOMAIN cand : cand[k] <= 5 /\ Len(fetched[k]) = cand[k]
          /\ (hpc = "done") <=> (resp # NoResp))
    /\ [][(resp # NoResp /\ hpc' # "native") => resp' = resp]_vars
    /\ (hpc = "native") ~> (hpc = "done")

\* a request of two months ended after the largest number of fetches: the
\* native one, five for each month and the single-price one
C27_Witness ==
    /\ hpc = "done"
    /\ months = 2
    /\ nfetch = 12
    /\ resp.status \in {200, 502}

\* an upstream object each of whose PriceResponse fields, where present, has
\* the JSON type of the struct field
IsPriceRecord(b) ==
    /\ b.kind = "object"
    /\ \A k \in PRKeys :
         b.f[k].t \in {"absent", IF k \in {"modelYear", "vehicleType"}
                                THEN "num" ELSE "str"}

\* entry e has the nine PriceResponse fields and no other, and all but
\* referenceMonth carry the value of upstream object b (the zero value
\* where b has none)
NineFieldsOf(e, b) ==
    /\ e.kind = "object"
    /\ \A k \in PRKeys : e.f[k].t # "absent"
    /\ \A k \in OtherKeys : e.f[k].t = "absent"
    /\ \A k \in PRKeys \ {"referenceMonth"} :
         IF b.f[k].t = "absent"
         THEN e.f[k].v = (IF k \in {"modelYear", "vehicleType"} THEN "0" ELSE "")
         ELSE e.f[k] = b.f[k]

\* the upstream answers that decode as a price record, and those of them
\* that quote a price
PriceRecords == {b \in PriceBodies : IsPriceRecord(b)}
PricedRecords == {b \in PriceRecords : b.f["price"].v # ""}

\* C30: on the per-month path and on the single-price fallback, a history
\* entry that decodes as a price record is returned with exactly the nine
\* PriceResponse fields: all but referenceMonth keep the upstream values and
\* no other upstream field is in the output.
C30_PriceRecordEntriesHaveNineFields ==
    /\ [][\A k \in DOMAIN tdone : \A b \in PricedRecords :
            TaskStep(k, Ok(b)) => tdone'[k] /\ NineFieldsOf(results'[k], b)]_vars
    /\ [][(Assemble /\ hpc' = "done" /\ resp'.body.kind = "envelope")
            => LET src == Collect(results, months)
               IN  /\ Len(resp'.body.history) = Len(src)
                   /\ \A i \in 1..Len(src) :
                        IsPriceRecord(src[i])
                           => NineFieldsOf(resp'.body.history[i], src[i])]_vars
    /\ [][\A b \in PriceRecords : SingleFetch(Ok(b))
               => /\ resp'.body.kind = "envelope"
                  /\ Len(resp'.body.history) = 1
                  /\ NineFieldsOf(resp'.body.history[1], b)]_vars

\* the single-price fallback answered a record that carries a tenth field,
\* and the response holds its nine fields without the tenth
C30_Witness ==
    /\ hpc = "done"
    /\ \A k \in DOMAIN results : IsEmptyBytes(results[k])
    /\ resp.status = 200
    /\ resp.body.kind = "envelope"
    /\ Len(resp.body.history) = 1
    /\ resp.body.history[1].f["codeFipe"] = Str("A")
    /\ resp.body.history[1].f["price"] = RecA.f["price"]
    /\ RecA.f["extra"].t # "absent"
    /\ resp.body.history[1].f["extra"].t = "absent"

\* C29: a payload that a brands, models or years handler serves from the
\* cache was fetched from the upstream URL that the parameters of the current
\* request map to.
C29_CachedPayloadFromRequestURL ==
    /\ [][\A q \in BrandsRequests :
            \A out \in Outcomes(BrandsURL(q), {Page(BrandsURL(q))}) :
               (handleGetBrands(q, out) /\ last'.fetches = 0)
                  => last'.resp.body = Page(BrandsURL(q))]_vars
    /\ [][\A q \in ModelsRequestsWide :
            \A out \in Outcomes(ModelsURL(q), {Page(ModelsURL(q))}) :
               (handleGetModels(q, out) /\ last'.fetches = 0)
                  => last'.resp.body = Page(ModelsURL(q))]_vars
    /\ [][\A q \in YearsRequestsWide :
            \A out \in Outcomes(YearsURL(q), {Page(YearsURL(q))}) :
               (handleGetYears(q, out) /\ last'.fetches = 0)
                  => last'.resp.body = Page(YearsURL(q))]_vars

\* the goroutines inside getCached (between RLock and RUnlock) and inside
\* setCached (between Lock and Unlock)
InGet == {t \in Threads : tpc[t] = "inGet"}
InSet == {t \in Threads : tpc[t] \in {"inSet", "storing"}}

\* C24: under any interleaving of concurrent handlers no setCached overlaps
\* another setCached or a getCached, and no getCached observes an entry that
\* is partially written.
C24_WritesExcludeReadsAndWrites ==
    /\ Cardinality(InSet) <= 1
    /\ InSet # {} => InGet = {}
    /\ writing # {} => InGet = {}
    /\ \A t \in Threads : ~tloc[t].partial

\* several getCached calls are inside the cache at once
C24_Witness ==
    /\ Cardinality(InGet) >= 2
    /\ InSet = {}
    /\ \E t \in Threads : tpc[t] = "inGet" /\ tloc[t].req.key \in DOMAIN cache

\* C28: the cache is not single-flight.  A handler that fetched answers the
\* payload it fetched itself; each setCached replaces the entry of its key
\* by its own payload, so the cache holds the payload of the setCached that
\* ran last, and a lookup within the TTL answers that payload.
C28_NotSingleFlight ==
    /\ [](\A t \in Threads :
            (tpc[t] = "done" /\ tloc[t].fetchedOk)
               => tloc[t].resp = OkResponse(tloc[t].own))
    /\ [][\A t \in Threads : \A out \in Outcomes(tloc[t].req.url, ListBodies) :
            (FetchReturns(t, out) /\ out.ok)
               => tloc'[t].own = out.body /\ tloc'[t].fetchedOk]_vars
    /\ [][\A t \in Threads :
            Unlock(t) => /\ cache'[tloc[t].req.key].data = tloc[t].own
                         /\ \A k \in DOMAIN cache \ {tloc[t].req.key} :
                              cache'[k] = cache[k]]_vars
    /\ [][cache' # cache => \E t \in Threads : Unlock(t)]_vars
    /\ [][\A t \in Threads :
            (/\ GetCachedReturns(t)
             /\ tloc[t].req.key \in DOMAIN cache
             /\ now <= cache[tloc[t].req.key].expiresAt)
               => /\ tpc'[t] = "done"
                  /\ ~tloc'[t].fetchedOk
                  /\ tloc'[t].resp = OkResponse(cache[tloc[t].req.key].data)]_vars

\* two requests for the same key both missed and fetched different payloads:
\* each answered its own, and the cache holds the payload of one of them
C28_Witness ==
    \E t, u \in Threads :
       /\ t # u
       /\ tpc[t] = "done" /\ tpc[u] = "done"
       /\ tloc[t].fetchedOk /\ tloc[u].fetchedOk
       /\ tloc[t].req.key = tloc[u].req.key
       /\ tloc[t].own # tloc[u].own
       /\ tloc[t].resp = OkResponse(tloc[t].own)
       /\ tloc[u].resp = OkResponse(tloc[u].own)
       /\ cache[tloc[t].req.key].data = tloc[u].own
       /\ stored[tloc[t].req.key].data = tloc[u].own

====
